---- MODULE Spec2Model ----
(***************************************************************************)
(* Hotel reservation system persisted in three JSON files (hotels,         *)
(* customers, reservations).  Every repository method is a                 *)
(* read-all / validate / mutate / write-all cycle over its file.           *)
(*                                                                         *)
(* Strings are sequences of one-character strings, so that str.strip() is  *)
(* a real conversion.  A file is [kind, items]: kind "array" holds the     *)
(* parsed JSON array, the other kinds are the files load_json_list turns   *)
(* into [].  A JSON object is a TLA+ record whose DOMAIN is its key set;   *)
(* a JSON element that is not an object is [nondict |-> TRUE].             *)
(*                                                                         *)
(* hotelFile, customerFile, reservationFile are the three files, uuid the  *)
(* number of uuid4() draws so far, last the call a single caller has just  *)
(* made with its result, calls the create_customer calls of callers that   *)
(* run concurrently, each between its file read and its file write.        *)
(***************************************************************************)
EXTENDS Integers, Sequences, FiniteSets, TLC

VARIABLES hotelFile, customerFile, reservationFile, uuid, last, calls

vars == <<hotelFile, customerFile, reservationFile, uuid, last, calls>>

(***************************************************************************)
(* Bounds                                                                  *)
(***************************************************************************)
\* number of uuid4() draws in one behaviour started on arbitrary files
MaxUuid == 1
\* number of uuid4() draws in one behaviour started on empty stores, when
\* reservations are the only way to count rooms
MaxLinkedUuid == 3
\* number of uuid4() draws in one behaviour started on empty stores, with
\* every public operation
MaxStoresUuid == 2
\* largest magnitude of the total_rooms and reserved_rooms of a Hotel value
MaxHotelValue == 5

\* number of uuid4() draws in one behaviour of the customer repository alone
MaxCustomerUuid == 2

\* largest total_rooms a caller passes
MaxRooms == 1

\* uuid4() draws of a behaviour that starts without files
MaxNoFileUuid == 1

\* number of callers that run create_customer concurrently, one call each
MaxCallers == 2

\* uuid4() draws of a behaviour of the operations that count rooms
MaxBookingUuid == 3

\* uuid4() draws of a behaviour of the three creates
MaxCreateUuid == 1

\* longest list a caller passes to save_json_list
MaxListLen == 2

(***************************************************************************)
(* Strings                                                                 *)
(***************************************************************************)
RECURSIVE LStrip(_)
LStrip(s) == IF s # <<>> /\ Head(s) = " " THEN LStrip(Tail(s)) ELSE s

RECURSIVE RStrip(_)
RStrip(s) ==
    IF s # <<>> /\ s[Len(s)] = " " THEN RStrip(SubSeq(s, 1, Len(s) - 1)) ELSE s

\* str.strip()
Strip(s) == RStrip(LStrip(s))

\* "c in s"
Contains(s, c) == \E i \in 1..Len(s) : s[i] = c

Digits == <<"1", "2", "3", "4", "5", "6", "7", "8", "9">>

\* str(uuid4()): the n-th identifier drawn, distinct from every other draw
Uuid4(n) == <<"u", Digits[n]>>

(***************************************************************************)
(* JSON numbers and int()                                                  *)
(* A rooms value of a stored record is [num |-> n] (a JSON integer) or     *)
(* [str |-> s] (a JSON string).  int() of a string parses an optional      *)
(* sign and one digit, and raises ValueError on anything else.             *)
(***************************************************************************)
DigitValue(c) == CHOOSE n \in 0..9 : (n = 0 /\ c = "0") \/ (n > 0 /\ Digits[n] = c)

IsDigit(c) == c = "0" \/ \E n \in 1..9 : Digits[n] = c

\* int(s) of a string already stripped; [ok |-> FALSE] stands for ValueError
ParseInt(s) ==
    IF Len(s) = 1 /\ IsDigit(s[1]) THEN [ok |-> TRUE, n |-> DigitValue(s[1])]
    ELSE IF Len(s) = 2 /\ s[1] = "-" /\ IsDigit(s[2])
        THEN [ok |-> TRUE, n |-> 0 - DigitValue(s[2])]
    ELSE [ok |-> FALSE, n |-> 0]

\* int(v)
PyInt(v) ==
    IF "num" \in DOMAIN v THEN [ok |-> TRUE, n |-> v.num] ELSE ParseInt(Strip(v.str))

(***************************************************************************)
(* storage.py                                                              *)
(***************************************************************************)
IsDict(item) == "nondict" \notin DOMAIN item

EmptyArray == [kind |-> "array", items |-> <<>>]

\* path.read_text(encoding="utf-8") raises UnicodeDecodeError on a file whose
\* bytes are not UTF-8 text: a ValueError that is no json.JSONDecodeError, so
\* `except (json.JSONDecodeError, OSError)` lets it through to the caller
read_text_raises(file) == file.kind = "undecodable"

\* load_json_list that returns every element of the array
load_json_list_unfiltered(file) ==
    IF file.kind = "array" THEN file.items ELSE <<>>

\* load_json_list when it returns: a missing, blank, unparseable or non-array
\* file is []
load_json_list(file) ==
    IF file.kind = "array" THEN SelectSeq(file.items, IsDict) ELSE <<>>

\* outcome of one path.write_text: written, OSError before the file is
\* opened (contents kept), OSError after open("w") truncated it
WriteOutcomes == {"ok", "keep", "trunc"}

\* save_json_list: never raises; the file after the call
save_json_list(file, data, w) ==
    CASE w = "ok"    -> [kind |-> "array", items |-> data]
      [] w = "keep"  -> file
      [] w = "trunc" -> [kind |-> "blank", items |-> <<>>]

(***************************************************************************)
(* Sequence helpers for the list comprehensions and loops of the source    *)
(***************************************************************************)
RECURSIVE Flatten(_)
Flatten(ss) == IF ss = <<>> THEN <<>> ELSE Head(ss) \o Flatten(Tail(ss))

MapSeq(s, F(_)) == [i \in 1..Len(s) |-> F(s[i])]

\* the indexes of a list a loop's `if` selects
Last1(matches) == CHOOSE i \in matches : \A j \in matches : j <= i

None == [none |-> TRUE]
Ok(ret) == [res |-> "ok", ret |-> ret]
NotFoundError == [res |-> "NotFound", ret |-> None]
UnicodeDecodeError == [res |-> "UnicodeDecodeError", ret |-> None]
ValidationError == [res |-> "Validation", ret |-> None]

\* `for x in xs: if x.id == id: return x` followed by `raise NotFoundError`
FirstOr404(found) == IF found = <<>> THEN NotFoundError ELSE Ok(found[1])

\* an operation's outcome: what it returns or raises, the file afterwards and
\* the outcome of each write it performed
Outcome(r, file, io) == [res |-> r.res, ret |-> r.ret, file |-> file, io |-> io]

(***************************************************************************)
(* hotel.py                                                                *)
(***************************************************************************)
HOTEL_REQUIRED_FIELDS == {"hotel_id", "name", "city", "total_rooms", "reserved_rooms"}

Hotel(hotel_id, name, city, total_rooms, reserved_rooms) ==
    [hotel_id |-> hotel_id, name |-> name, city |-> city,
     total_rooms |-> total_rooms, reserved_rooms |-> reserved_rooms]

\* available_rooms without the max(0, ...)
available_rooms_unclamped(hotel) == hotel.total_rooms - hotel.reserved_rooms

\* available_rooms that never reports less than one room
available_rooms_min1(hotel) ==
    IF hotel.total_rooms - hotel.reserved_rooms > 1
        THEN hotel.total_rooms - hotel.reserved_rooms ELSE 1

\* max(0, total_rooms - reserved_rooms)
available_rooms(hotel) ==
    IF hotel.total_rooms - hotel.reserved_rooms > 0
        THEN hotel.total_rooms - hotel.reserved_rooms ELSE 0

\* the checks of _validate_record without the reserved_rooms range check
Hotel_validate_fields_norange(hotel_id, name, city, total_rooms, reserved_rooms) ==
    IF ~total_rooms.ok \/ ~reserved_rooms.ok THEN <<>>
    ELSE IF hotel_id = <<>> \/ name = <<>> \/ city = <<>> THEN <<>>
    ELSE IF total_rooms.n <= 0 THEN <<>>
    ELSE <<Hotel(hotel_id, name, city, total_rooms.n, reserved_rooms.n)>>

\* the checks of _validate_record with a full hotel taken for an invalid one
Hotel_validate_fields_nofull(hotel_id, name, city, total_rooms, reserved_rooms) ==
    IF ~total_rooms.ok \/ ~reserved_rooms.ok THEN <<>>
    ELSE IF hotel_id = <<>> \/ name = <<>> \/ city = <<>> THEN <<>>
    ELSE IF total_rooms.n <= 0 THEN <<>>
    ELSE IF reserved_rooms.n < 0 \/ reserved_rooms.n >= total_rooms.n THEN <<>>
    ELSE <<Hotel(hotel_id, name, city, total_rooms.n, reserved_rooms.n)>>

\* the checks of _validate_record on the converted fields
Hotel_validate_fields(hotel_id, name, city, total_rooms, reserved_rooms) ==
    IF ~total_rooms.ok \/ ~reserved_rooms.ok THEN <<>>
    ELSE IF hotel_id = <<>> \/ name = <<>> \/ city = <<>> THEN <<>>
    ELSE IF total_rooms.n <= 0 THEN <<>>
    ELSE IF reserved_rooms.n < 0 \/ reserved_rooms.n > total_rooms.n THEN <<>>
    ELSE <<Hotel(hotel_id, name, city, total_rooms.n, reserved_rooms.n)>>

\* Optional[Hotel] as a sequence of 0 or 1 hotels
Hotel_validate_record(record) ==
    IF ~(HOTEL_REQUIRED_FIELDS \subseteq DOMAIN record) THEN <<>>
    ELSE Hotel_validate_fields(Strip(record.hotel_id), Strip(record.name),
                               Strip(record.city), PyInt(record.total_rooms),
                               PyInt(record.reserved_rooms))

Hotel_load_all(file) == Flatten(MapSeq(load_json_list(file), Hotel_validate_record))

\* asdict that writes the city under "name"
Hotel_asdict_misnamed(h) ==
    [hotel_id |-> h.hotel_id, name |-> h.city, city |-> h.city,
     total_rooms |-> [num |-> h.total_rooms],
     reserved_rooms |-> [num |-> h.reserved_rooms]]

\* asdict(h)
Hotel_asdict(h) ==
    [hotel_id |-> h.hotel_id, name |-> h.name, city |-> h.city,
     total_rooms |-> [num |-> h.total_rooms],
     reserved_rooms |-> [num |-> h.reserved_rooms]]

\* _save_all that leaves the file as it was
Hotel_save_all_unsaved(file, hotels, w) == file

Hotel_save_all(file, hotels, w) == save_json_list(file, MapSeq(hotels, Hotel_asdict), w)

\* get_hotel answering with the hotel as it was created: no room reserved
get_hotel_as_created(file, hotel_id) ==
    IF read_text_raises(file) THEN UnicodeDecodeError
    ELSE FirstOr404(MapSeq(SelectSeq(Hotel_load_all(file), LAMBDA h : h.hotel_id = hotel_id),
                           LAMBDA h : Hotel(h.hotel_id, h.name, h.city, h.total_rooms, 0)))

\* the first hotel of the loaded list with this id
get_hotel(file, hotel_id) ==
    IF read_text_raises(file) THEN UnicodeDecodeError
    ELSE FirstOr404(SelectSeq(Hotel_load_all(file), LAMBDA h : h.hotel_id = hotel_id))

\* create_hotel without the check of the city
create_hotel_checked_nocity(file, name, city, total_rooms, id, w) ==
    IF name = <<>> THEN Outcome(ValidationError, file, <<>>)
    ELSE IF total_rooms <= 0 THEN Outcome(ValidationError, file, <<>>)
    ELSE IF read_text_raises(file) THEN Outcome(UnicodeDecodeError, file, <<>>)
    ELSE Outcome(Ok(Hotel(id, name, city, total_rooms, 0)),
                 Hotel_save_all(file,
                                Append(Hotel_load_all(file),
                                       Hotel(id, name, city, total_rooms, 0)),
                                w),
                 <<w>>)

\* create_hotel after the strip() of its arguments
create_hotel_checked(file, name, city, total_rooms, id, w) ==
    IF name = <<>> THEN Outcome(ValidationError, file, <<>>)
    ELSE IF city = <<>> THEN Outcome(ValidationError, file, <<>>)
    ELSE IF total_rooms <= 0 THEN Outcome(ValidationError, file, <<>>)
    ELSE IF read_text_raises(file) THEN Outcome(UnicodeDecodeError, file, <<>>)
    ELSE Outcome(Ok(Hotel(id, name, city, total_rooms, 0)),
                 Hotel_save_all(file,
                                Append(Hotel_load_all(file),
                                       Hotel(id, name, city, total_rooms, 0)),
                                w),
                 <<w>>)

create_hotel(file, name, city, total_rooms, id, w) ==
    create_hotel_checked(file, Strip(name), Strip(city), total_rooms, id, w)

\* the f-string of display_hotel
hotel_text(r) ==
    IF r.res # "ok" THEN r
    ELSE Ok([text |-> "Hotel", id |-> r.ret.hotel_id, name |-> r.ret.name,
             city |-> r.ret.city, reserved |-> r.ret.reserved_rooms,
             total |-> r.ret.total_rooms, available |-> available_rooms(r.ret)])

display_hotel(file, hotel_id) == hotel_text(get_hotel(file, hotel_id))

\* the guard of the loop of modify_hotel refusing total_rooms == reserved_rooms
modify_hotel_rejects_equal(hotel, total_rooms) == hotel.reserved_rooms >= total_rooms

\* the guard of the loop of modify_hotel that raises ValidationError
modify_hotel_rejects(hotel, total_rooms) == hotel.reserved_rooms > total_rooms

\* `return self.get_hotel(hotel_id)` on the file as saved
modify_hotel_return(saved, hotel_id, w) ==
    Outcome(get_hotel(saved, hotel_id), saved, <<w>>)

\* the loop of modify_hotel over the loaded hotels, and what follows it
modify_hotel_loop(file, hotels, hotel_id, name, city, total_rooms, w) ==
    LET matches == {i \in 1..Len(hotels) : hotels[i].hotel_id = hotel_id}
        updated == [i \in 1..Len(hotels) |->
                      IF i \in matches
                          THEN Hotel(hotel_id, name, city, total_rooms,
                                     hotels[i].reserved_rooms)
                          ELSE hotels[i]]
    IN  IF \E i \in matches : modify_hotel_rejects(hotels[i], total_rooms)
            THEN Outcome(ValidationError, file, <<>>)
        ELSE IF matches = {} THEN Outcome(NotFoundError, file, <<>>)
        ELSE modify_hotel_return(Hotel_save_all(file, updated, w), hotel_id, w)

\* modify_hotel without the check of total_rooms <= 0
modify_hotel_checked_anyrooms(file, hotel_id, name, city, total_rooms, w) ==
    IF name = <<>> THEN Outcome(ValidationError, file, <<>>)
    ELSE IF city = <<>> THEN Outcome(ValidationError, file, <<>>)
    ELSE IF read_text_raises(file) THEN Outcome(UnicodeDecodeError, file, <<>>)
    ELSE modify_hotel_loop(file, Hotel_load_all(file), hotel_id, name, city,
                           total_rooms, w)

\* modify_hotel after the strip() of its arguments
modify_hotel_checked(file, hotel_id, name, city, total_rooms, w) ==
    IF name = <<>> THEN Outcome(ValidationError, file, <<>>)
    ELSE IF city = <<>> THEN Outcome(ValidationError, file, <<>>)
    ELSE IF total_rooms <= 0 THEN Outcome(ValidationError, file, <<>>)
    ELSE IF read_text_raises(file) THEN Outcome(UnicodeDecodeError, file, <<>>)
    ELSE modify_hotel_loop(file, Hotel_load_all(file), hotel_id, name, city,
                           total_rooms, w)

modify_hotel(file, hotel_id, name, city, total_rooms, w) ==
    modify_hotel_checked(file, hotel_id, Strip(name), Strip(city), total_rooms, w)

\* the hotels with reserved_rooms + d for the hotel of this id
with_reserved(hotels, hotel_id, d) ==
    [i \in 1..Len(hotels) |->
        IF hotels[i].hotel_id = hotel_id
            THEN Hotel(hotels[i].hotel_id, hotels[i].name, hotels[i].city,
                       hotels[i].total_rooms, hotels[i].reserved_rooms + d)
            ELSE hotels[i]]

reserve_room_loaded(file, hotels, hotel_id, w) ==
    IF \A i \in 1..Len(hotels) : hotels[i].hotel_id # hotel_id
        THEN Outcome(NotFoundError, file, <<>>)
    ELSE IF \E i \in 1..Len(hotels) :
               hotels[i].hotel_id = hotel_id /\ available_rooms(hotels[i]) = 0
        THEN Outcome(ValidationError, file, <<>>)
    ELSE Outcome(Ok(None),
                 Hotel_save_all(file, with_reserved(hotels, hotel_id, 1), w), <<w>>)

\* reserve_room: NotFound if the hotel is absent, Validation if
\* available_rooms == 0, otherwise reserved_rooms + 1 is persisted
reserve_room(file, hotel_id, w) ==
    IF read_text_raises(file) THEN Outcome(UnicodeDecodeError, file, <<>>)
    ELSE reserve_room_loaded(file, Hotel_load_all(file), hotel_id, w)

cancel_room_reservation_loaded(file, hotels, hotel_id, w) ==
    IF \A i \in 1..Len(hotels) : hotels[i].hotel_id # hotel_id
        THEN Outcome(NotFoundError, file, <<>>)
    ELSE IF \E i \in 1..Len(hotels) :
               hotels[i].hotel_id = hotel_id /\ hotels[i].reserved_rooms = 0
        THEN Outcome(ValidationError, file, <<>>)
    ELSE Outcome(Ok(None),
                 Hotel_save_all(file, with_reserved(hotels, hotel_id, 0 - 1), w),
                 <<w>>)

\* cancel_room_reservation: NotFound if the hotel is absent, Validation if
\* reserved_rooms == 0, otherwise reserved_rooms - 1 is persisted
cancel_room_reservation(file, hotel_id, w) ==
    IF read_text_raises(file) THEN Outcome(UnicodeDecodeError, file, <<>>)
    ELSE cancel_room_reservation_loaded(file, Hotel_load_all(file), hotel_id, w)

delete_hotel_loaded(file, hotels, hotel_id, w) ==
    IF \A i \in 1..Len(hotels) : hotels[i].hotel_id # hotel_id
        THEN Outcome(NotFoundError, file, <<>>)
    ELSE Outcome(Ok(None),
                 Hotel_save_all(file,
                                SelectSeq(hotels, LAMBDA h : h.hotel_id # hotel_id),
                                w),
                 <<w>>)

\* delete_hotel: NotFound if absent, otherwise the set without it is persisted
delete_hotel(file, hotel_id, w) ==
    IF read_text_raises(file) THEN Outcome(UnicodeDecodeError, file, <<>>)
    ELSE delete_hotel_loaded(file, Hotel_load_all(file), hotel_id, w)

(***************************************************************************)
(* customer.py                                                             *)
(***************************************************************************)
CUSTOMER_REQUIRED_FIELDS == {"customer_id", "name", "email"}

Customer(customer_id, name, email) ==
    [customer_id |-> customer_id, name |-> name, email |-> email]

\* the checks of _validate_record without the one on the name
Customer_validate_fields_anyname(customer_id, name, email) ==
    IF customer_id = <<>> \/ email = <<>> THEN <<>>
    ELSE <<Customer(customer_id, name, email)>>

\* the checks of _validate_record on the stripped fields
Customer_validate_fields(customer_id, name, email) ==
    IF customer_id = <<>> \/ name = <<>> \/ email = <<>> THEN <<>>
    ELSE <<Customer(customer_id, name, email)>>

Customer_validate_record(record) ==
    IF ~(CUSTOMER_REQUIRED_FIELDS \subseteq DOMAIN record) THEN <<>>
    ELSE Customer_validate_fields(Strip(record.customer_id), Strip(record.name),
                                  Strip(record.email))

Customer_load_all(file) ==
    Flatten(MapSeq(load_json_list(file), Customer_validate_record))

\* asdict(c) is the record itself: all three fields are strings
Customer_save_all(file, customers, w) == save_json_list(file, customers, w)

\* create_customer that builds Customer(id, email, name)
create_customer_checked_swapped(file, name, email, id, w) ==
    IF name = <<>> THEN Outcome(ValidationError, file, <<>>)
    ELSE IF ~Contains(email, "@") \/ ~Contains(email, ".")
        THEN Outcome(ValidationError, file, <<>>)
    ELSE Outcome(Ok(Customer(id, email, name)),
                 Customer_save_all(file,
                                   Append(Customer_load_all(file),
                                          Customer(id, email, name)),
                                   w),
                 <<w>>)

\* create_customer that refuses an email only when it lacks both "@" and "."
create_customer_checked_lax(file, name, email, id, w) ==
    IF name = <<>> THEN Outcome(ValidationError, file, <<>>)
    ELSE IF ~Contains(email, "@") /\ ~Contains(email, ".")
        THEN Outcome(ValidationError, file, <<>>)
    ELSE IF read_text_raises(file) THEN Outcome(UnicodeDecodeError, file, <<>>)
    ELSE Outcome(Ok(Customer(id, name, email)),
                 Customer_save_all(file,
                                   Append(Customer_load_all(file),
                                          Customer(id, name, email)),
                                   w),
                 <<w>>)

\* create_customer that appends to the records as read, without dropping the
\* ones _validate_record refuses
create_customer_checked_unfiltered(file, name, email, id, w) ==
    IF name = <<>> THEN Outcome(ValidationError, file, <<>>)
    ELSE IF ~Contains(email, "@") \/ ~Contains(email, ".")
        THEN Outcome(ValidationError, file, <<>>)
    ELSE IF read_text_raises(file) THEN Outcome(UnicodeDecodeError, file, <<>>)
    ELSE Outcome(Ok(Customer(id, name, email)),
                 save_json_list(file,
                                Append(load_json_list(file), Customer(id, name, email)),
                                w),
                 <<w>>)

\* create_customer after the strip() of its arguments
create_customer_checked(file, name, email, id, w) ==
    IF name = <<>> THEN Outcome(ValidationError, file, <<>>)
    ELSE IF ~Contains(email, "@") \/ ~Contains(email, ".")
        THEN Outcome(ValidationError, file, <<>>)
    ELSE IF read_text_raises(file) THEN Outcome(UnicodeDecodeError, file, <<>>)
    ELSE Outcome(Ok(Customer(id, name, email)),
                 Customer_save_all(file,
                                   Append(Customer_load_all(file),
                                          Customer(id, name, email)),
                                   w),
                 <<w>>)

create_customer(file, name, email, id, w) ==
    create_customer_checked(file, Strip(name), Strip(email), id, w)

\* create_customer up to and including its file read: what it raises, or the
\* Customer it built and the list _load_all returned
create_customer_read(file, name, email, id) ==
    IF name = <<>> THEN ValidationError
    ELSE IF ~Contains(email, "@") \/ ~Contains(email, ".") THEN ValidationError
    ELSE IF read_text_raises(file) THEN UnicodeDecodeError
    ELSE [res |-> "ok", ret |-> Customer(id, name, email),
          customers |-> Customer_load_all(file)]

\* create_customer that reads the file again just before it writes
create_customer_write_reread(file, customer, customers, w) ==
    Customer_save_all(file, Append(Customer_load_all(file), customer), w)

\* create_customer from its file write on: customers.append(customer) and
\* _save_all(customers), on the list read earlier
create_customer_write(file, customer, customers, w) ==
    Customer_save_all(file, Append(customers, customer), w)

get_customer(file, customer_id) ==
    IF read_text_raises(file) THEN UnicodeDecodeError
    ELSE FirstOr404(SelectSeq(Customer_load_all(file),
                              LAMBDA c : c.customer_id = customer_id))

\* the f-string of display_customer
customer_text(r) ==
    IF r.res # "ok" THEN r
    ELSE Ok([text |-> "Customer", id |-> r.ret.customer_id,
             name |-> r.ret.name, email |-> r.ret.email])

display_customer(file, customer_id) == customer_text(get_customer(file, customer_id))

\* `return self.get_customer(customer_id)` on the file as saved
modify_customer_return(saved, customer_id, w) ==
    Outcome(get_customer(saved, customer_id), saved, <<w>>)

\* modify_customer that moves the replaced record to the end of the list
modify_customer_loop_moved(file, customers, customer_id, name, email, w) ==
    IF \A i \in 1..Len(customers) : customers[i].customer_id # customer_id
        THEN Outcome(NotFoundError, file, <<>>)
    ELSE modify_customer_return(
             Customer_save_all(file,
                               Append(SelectSeq(customers,
                                                LAMBDA c : c.customer_id # customer_id),
                                      Customer(customer_id, name, email)),
                               w),
             customer_id, w)

\* the loop of modify_customer over the loaded customers, and what follows it
modify_customer_loop(file, customers, customer_id, name, email, w) ==
    IF \A i \in 1..Len(customers) : customers[i].customer_id # customer_id
        THEN Outcome(NotFoundError, file, <<>>)
    ELSE modify_customer_return(
             Customer_save_all(file,
                               [i \in 1..Len(customers) |->
                                   IF customers[i].customer_id = customer_id
                                       THEN Customer(customer_id, name, email)
                                       ELSE customers[i]],
                               w),
             customer_id, w)

\* modify_customer that looks the id up before it checks the name and email
modify_customer_checked_lookup_first(file, customer_id, name, email, w) ==
    IF read_text_raises(file) THEN Outcome(UnicodeDecodeError, file, <<>>)
    ELSE IF get_customer(file, customer_id).res # "ok"
        THEN Outcome(NotFoundError, file, <<>>)
    ELSE IF name = <<>> THEN Outcome(ValidationError, file, <<>>)
    ELSE IF ~Contains(email, "@") \/ ~Contains(email, ".")
        THEN Outcome(ValidationError, file, <<>>)
    ELSE modify_customer_loop(file, Customer_load_all(file), customer_id, name,
                              email, w)

\* modify_customer after the strip() of its arguments
modify_customer_checked(file, customer_id, name, email, w) ==
    IF name = <<>> THEN Outcome(ValidationError, file, <<>>)
    ELSE IF ~Contains(email, "@") \/ ~Contains(email, ".")
        THEN Outcome(ValidationError, file, <<>>)
    ELSE IF read_text_raises(file) THEN Outcome(UnicodeDecodeError, file, <<>>)
    ELSE modify_customer_loop(file, Customer_load_all(file), customer_id, name,
                              email, w)

modify_customer(file, customer_id, name, email, w) ==
    modify_customer_checked(file, customer_id, Strip(name), Strip(email), w)

\* delete_customer that saves the loaded customers before it raises
delete_customer_loaded_saved(file, customers, new_list, w) ==
    IF Len(new_list) = Len(customers)
        THEN Outcome(NotFoundError, Customer_save_all(file, new_list, w), <<>>)
    ELSE Outcome(Ok(None), Customer_save_all(file, new_list, w), <<w>>)

\* delete_customer on the loaded customers
delete_customer_loaded(file, customers, new_list, w) ==
    IF Len(new_list) = Len(customers) THEN Outcome(NotFoundError, file, <<>>)
    ELSE Outcome(Ok(None), Customer_save_all(file, new_list, w), <<w>>)

\* new_list of delete_customer without the first record of the id only
without_customer_first(customers, customer_id) ==
    SelectSeq([i \in 1..Len(customers) |->
                  IF /\ customers[i].customer_id = customer_id
                     /\ \A j \in 1..(i - 1) : customers[j].customer_id # customer_id
                      THEN None ELSE customers[i]],
              LAMBDA c : c # None)

\* new_list of delete_customer
without_customer(customers, customer_id) ==
    SelectSeq(customers, LAMBDA c : c.customer_id # customer_id)

delete_customer(file, customer_id, w) ==
    IF read_text_raises(file) THEN Outcome(UnicodeDecodeError, file, <<>>)
    ELSE delete_customer_loaded(file, Customer_load_all(file),
                                without_customer(Customer_load_all(file), customer_id),
                                w)

(***************************************************************************)
(* reservation.py                                                          *)
(***************************************************************************)
RESERVATION_REQUIRED_FIELDS == {"reservation_id", "customer_id", "hotel_id"}

Reservation(reservation_id, customer_id, hotel_id) ==
    [reservation_id |-> reservation_id, customer_id |-> customer_id,
     hotel_id |-> hotel_id]

\* the checks of _validate_record on the stripped fields
Reservation_validate_fields(reservation_id, customer_id, hotel_id) ==
    IF reservation_id = <<>> \/ customer_id = <<>> \/ hotel_id = <<>> THEN <<>>
    ELSE <<Reservation(reservation_id, customer_id, hotel_id)>>

Reservation_validate_record(record) ==
    IF ~(RESERVATION_REQUIRED_FIELDS \subseteq DOMAIN record) THEN <<>>
    ELSE Reservation_validate_fields(Strip(record.reservation_id),
                                     Strip(record.customer_id),
                                     Strip(record.hotel_id))

Reservation_load_all(file) ==
    Flatten(MapSeq(load_json_list(file), Reservation_validate_record))

\* asdict(r) is the record itself: all three fields are strings
Reservation_save_all(file, reservations, w) == save_json_list(file, reservations, w)

\* an outcome of the reservation repository: it writes two files
Outcome2(r, hfile, rfile, io) ==
    [res |-> r.res, ret |-> r.ret, hfile |-> hfile, rfile |-> rfile, io |-> io]

\* create_reservation that returns the Reservation without persisting it
create_reservation_reserved_norecord(rr, rfile, customer_id, hotel_id, id, wr) ==
    IF rr.res # "ok" THEN Outcome2(rr, rr.file, rfile, rr.io)
    ELSE Outcome2(Ok(Reservation(id, customer_id, hotel_id)), rr.file, rfile,
                  rr.io \o <<wr>>)

\* create_reservation that persists the Reservation whatever reserve_room did
create_reservation_reserved_unchecked(rr, rfile, customer_id, hotel_id, id, wr) ==
    Outcome2(Ok(Reservation(id, customer_id, hotel_id)), rr.file,
             Reservation_save_all(rfile,
                                  Append(Reservation_load_all(rfile),
                                         Reservation(id, customer_id, hotel_id)),
                                  wr),
             rr.io \o <<wr>>)

\* create_reservation that gives the room back when its own write fails
create_reservation_reserved_compensated(rr, rfile, customer_id, hotel_id, id, wr) ==
    IF rr.res # "ok" THEN Outcome2(rr, rr.file, rfile, rr.io)
    ELSE IF wr # "ok"
        THEN Outcome2(Ok(Reservation(id, customer_id, hotel_id)),
                      Hotel_save_all(rr.file,
                                     with_reserved(Hotel_load_all(rr.file),
                                                   hotel_id, 0 - 1),
                                     "ok"),
                      Reservation_save_all(rfile, <<>>, wr),
                      rr.io \o <<wr>>)
    ELSE Outcome2(Ok(Reservation(id, customer_id, hotel_id)), rr.file,
                  Reservation_save_all(rfile,
                                       Append(Reservation_load_all(rfile),
                                              Reservation(id, customer_id, hotel_id)),
                                       wr),
                  rr.io \o <<wr>>)

\* create_reservation from the return of reserve_room (rr) on
create_reservation_reserved(rr, rfile, customer_id, hotel_id, id, wr) ==
    IF rr.res # "ok" THEN Outcome2(rr, rr.file, rfile, rr.io)
    ELSE IF read_text_raises(rfile)
        THEN Outcome2(UnicodeDecodeError, rr.file, rfile, rr.io)
    ELSE Outcome2(Ok(Reservation(id, customer_id, hotel_id)), rr.file,
                  Reservation_save_all(rfile,
                                       Append(Reservation_load_all(rfile),
                                              Reservation(id, customer_id, hotel_id)),
                                       wr),
                  rr.io \o <<wr>>)

\* create_reservation that reserves the room before it looks the customer up
create_reservation_reserve_first(cfile, hfile, rfile, customer_id, hotel_id, id, wh, wr) ==
    IF get_hotel(hfile, hotel_id).res # "ok"
        THEN Outcome2(get_hotel(hfile, hotel_id), hfile, rfile, <<>>)
    ELSE IF get_customer(cfile, customer_id).res # "ok"
        THEN Outcome2(get_customer(cfile, customer_id), reserve_room(hfile, hotel_id, wh).file, rfile,
                      <<wh>>)
    ELSE create_reservation_reserved(reserve_room(hfile, hotel_id, wh), rfile,
                                     customer_id, hotel_id, id, wr)

\* create_reservation that records the reservation without reserving a room
create_reservation_unreserved(cfile, hfile, rfile, customer_id, hotel_id, id, wh, wr) ==
    IF get_customer(cfile, customer_id).res # "ok"
        THEN Outcome2(get_customer(cfile, customer_id), hfile, rfile, <<>>)
    ELSE IF get_hotel(hfile, hotel_id).res # "ok"
        THEN Outcome2(get_hotel(hfile, hotel_id), hfile, rfile, <<>>)
    ELSE create_reservation_reserved(Outcome(Ok(None), hfile, <<>>), rfile,
                                     customer_id, hotel_id, id, wr)

create_reservation(cfile, hfile, rfile, customer_id, hotel_id, id, wh, wr) ==
    IF get_customer(cfile, customer_id).res # "ok"
        THEN Outcome2(get_customer(cfile, customer_id), hfile, rfile, <<>>)
    ELSE IF get_hotel(hfile, hotel_id).res # "ok"
        THEN Outcome2(get_hotel(hfile, hotel_id), hfile, rfile, <<>>)
    ELSE create_reservation_reserved(reserve_room(hfile, hotel_id, wh), rfile,
                                     customer_id, hotel_id, id, wr)

\* cancel_reservation that releases the room and keeps the record
cancel_reservation_released_norewrite(cr, rfile, remaining, wr) ==
    IF cr.res # "ok" THEN Outcome2(cr, cr.file, rfile, cr.io)
    ELSE Outcome2(Ok(None), cr.file, rfile, cr.io \o <<wr>>)

\* cancel_reservation that removes the record whatever the hotel answered
cancel_reservation_released_swallow(cr, rfile, remaining, wr) ==
    Outcome2(Ok(None), cr.file, Reservation_save_all(rfile, remaining, wr),
             cr.io \o <<wr>>)

\* cancel_reservation that rewrites the reservation file before it looks at
\* what cancel_room_reservation raised
cancel_reservation_released_rewrite_first(cr, rfile, remaining, wr) ==
    IF cr.res # "ok"
        THEN Outcome2(cr, cr.file, Reservation_save_all(rfile, remaining, wr),
                      cr.io \o <<wr>>)
    ELSE Outcome2(Ok(None), cr.file, Reservation_save_all(rfile, remaining, wr),
                  cr.io \o <<wr>>)

\* cancel_reservation from the return of cancel_room_reservation (cr) on
cancel_reservation_released(cr, rfile, remaining, wr) ==
    IF cr.res # "ok" THEN Outcome2(cr, cr.file, rfile, cr.io)
    ELSE Outcome2(Ok(None), cr.file, Reservation_save_all(rfile, remaining, wr),
                  cr.io \o <<wr>>)

\* cancel_reservation whose loop drops the target only, keeping the other
\* records of its id
cancel_reservation_loop_target(hfile, rfile, reservations, reservation_id, wh, wr) ==
    LET matches == {i \in 1..Len(reservations) :
                      reservations[i].reservation_id = reservation_id}
    IN  IF matches = {} THEN Outcome2(NotFoundError, hfile, rfile, <<>>)
        ELSE cancel_reservation_released(
                 cancel_room_reservation(hfile,
                                         reservations[Last1(matches)].hotel_id, wh),
                 rfile,
                 SubSeq(reservations, 1, Last1(matches) - 1)
                     \o SubSeq(reservations, Last1(matches) + 1, Len(reservations)),
                 wr)

\* the loop of cancel_reservation over the loaded reservations (target is
\* the last one with this id), and what follows it
cancel_reservation_loop(hfile, rfile, reservations, reservation_id, wh, wr) ==
    LET matches == {i \in 1..Len(reservations) :
                      reservations[i].reservation_id = reservation_id}
    IN  IF matches = {} THEN Outcome2(NotFoundError, hfile, rfile, <<>>)
        ELSE cancel_reservation_released(
                 cancel_room_reservation(hfile,
                                         reservations[Last1(matches)].hotel_id, wh),
                 rfile,
                 SelectSeq(reservations,
                           LAMBDA r : r.reservation_id # reservation_id),
                 wr)

\* cancel_reservation that removes the record without releasing the room
cancel_reservation_norelease(hfile, rfile, reservation_id, wh, wr) ==
    IF read_text_raises(rfile) THEN Outcome2(UnicodeDecodeError, hfile, rfile, <<>>)
    ELSE cancel_reservation_loop(hfile, rfile, Reservation_load_all(rfile),
                                 reservation_id, "keep", wr)

cancel_reservation(hfile, rfile, reservation_id, wh, wr) ==
    IF read_text_raises(rfile) THEN Outcome2(UnicodeDecodeError, hfile, rfile, <<>>)
    ELSE cancel_reservation_loop(hfile, rfile, Reservation_load_all(rfile),
                                 reservation_id, wh, wr)

\* the f-string of display_reservation with its two references exchanged
reservation_text_exchanged(r) ==
    IF r.res # "ok" THEN r
    ELSE Ok([text |-> "Reservation", id |-> r.ret.reservation_id,
             customer |-> r.ret.hotel_id, hotel |-> r.ret.customer_id])

\* the f-string of display_reservation
reservation_text(r) ==
    IF r.res # "ok" THEN r
    ELSE Ok([text |-> "Reservation", id |-> r.ret.reservation_id,
             customer |-> r.ret.customer_id, hotel |-> r.ret.hotel_id])

display_reservation(rfile, reservation_id) ==
    IF read_text_raises(rfile) THEN UnicodeDecodeError
    ELSE reservation_text(
             FirstOr404(SelectSeq(Reservation_load_all(rfile),
                                  LAMBDA r : r.reservation_id = reservation_id)))

(***************************************************************************)
(* Inputs of the callers                                                   *)
(***************************************************************************)
\* the identifiers a caller may hold when at most U were drawn
Uuids(U) == {Uuid4(n) : n \in 1..U}

\* (name, city, total_rooms) of create_hotel and modify_hotel: accepted ones
\* (the name is padded) and one for each check that rejects
HotelArgs ==
    {[name |-> <<" ", "B">>, city |-> <<"C">>, total_rooms |-> n] : n \in 1..MaxRooms}
    \cup {[name |-> <<" ">>, city |-> <<"C">>, total_rooms |-> 1],
          [name |-> <<"B">>, city |-> <<>>, total_rooms |-> 1],
          [name |-> <<"B">>, city |-> <<"C">>, total_rooms |-> 0]}

\* (name, email) of create_customer and modify_customer: accepted ones (one
\* with a padded email) and one for each check that rejects
CustomerArgs ==
    {[name |-> <<"B">>, email |-> <<"@", ".">>],
     [name |-> <<"B">>, email |-> <<" ", "@", ".">>],
     [name |-> <<" ">>, email |-> <<"@", ".">>],
     [name |-> <<"B">>, email |-> <<"@">>],
     [name |-> <<"B">>, email |-> <<".">>]}

HotelIds(U) == {<<"x">>} \cup Uuids(U)
CustomerIds(U) == {<<"c">>} \cup Uuids(U)
ReservationIds(U) == {<<"r">>} \cup Uuids(U)

(***************************************************************************)
(* Files the system may be started on                                      *)
(***************************************************************************)
NonDict == [nondict |-> TRUE]

JNum(n) == [num |-> n]
JStr(s) == [str |-> s]

RawHotel(hotel_id, total_rooms, reserved_rooms) ==
    [hotel_id |-> hotel_id, name |-> <<"A">>, city |-> <<"C">>,
     total_rooms |-> total_rooms, reserved_rooms |-> reserved_rooms]

RawHotelRecs ==
    { RawHotel(<<"x">>, JNum(1), JNum(0)),
      RawHotel(<<"x">>, JNum(1), JNum(1)),
      RawHotel(<<" ", "x", " ">>, JNum(2), JNum(1)),
      RawHotel(<<"x">>, JStr(<<"2">>), JStr(<<" ", "2">>)),
      RawHotel(<<"y">>, JNum(2), JNum(1)),
      \* records _validate_record drops
      RawHotel(<<"x">>, JNum(0), JNum(0)),
      RawHotel(<<"x">>, JNum(1), JNum(0 - 1)),
      RawHotel(<<"x">>, JNum(1), JNum(2)),
      RawHotel(<<"x">>, JStr(<<"a">>), JNum(0)),
      RawHotel(<<" ">>, JNum(1), JNum(0)),
      [hotel_id |-> <<"x">>, name |-> <<"A">>, total_rooms |-> JNum(1),
       reserved_rooms |-> JNum(0)],
      [hotel_id |-> <<"x">>, name |-> <<" ">>, city |-> <<"C">>,
       total_rooms |-> JNum(1), reserved_rooms |-> JNum(0)],
      NonDict }

NoFile == {[kind |-> k, items |-> <<>>] : k \in {"missing", "blank", "corrupt", "object"}}

\* a file whose bytes are not UTF-8 text
Undecodable == [kind |-> "undecodable", items |-> <<>>]

Array(items) == [kind |-> "array", items |-> items]

\* identifiers come from uuid4(): no two valid records of a file share one
UniqueIds(ids) == \A i, j \in 1..Len(ids) : ids[i] = ids[j] => i = j

\* hotel files of several records: two hotels, a dropped record before a
\* hotel, a non-object element before a hotel whose id is padded
RawHotelLists ==
    { <<RawHotel(<<"x">>, JNum(1), JNum(0)), RawHotel(<<"y">>, JNum(2), JNum(1))>>,
      <<RawHotel(<<"x">>, JNum(0), JNum(0)), RawHotel(<<"x">>, JNum(1), JNum(1))>>,
      <<NonDict, RawHotel(<<" ", "x", " ">>, JNum(2), JNum(1))>> }

InitHotelFiles ==
    NoFile \cup
    {f \in {Array(<<>>)} \cup {Array(<<r>>) : r \in RawHotelRecs}
             \cup {Array(l) : l \in RawHotelLists} :
        UniqueIds(MapSeq(Hotel_load_all(f), LAMBDA h : h.hotel_id))}

InitCustomerFiles ==
    {Array(<<Customer(<<"c">>, <<"A">>, <<"@", ".">>)>>)}

\* customer files of the customer repository on its own: two customers, padded
\* fields, an email without "@" (the load checks only that it is not blank),
\* records _validate_record drops (blank name, missing email) and a
\* non-object element before valid ones, two records of one id
RawCustomerLists ==
    { <<>>,
      <<Customer(<<"c">>, <<"A">>, <<"@", ".">>)>>,
      <<Customer(<<"c">>, <<"A">>, <<"@", ".">>), Customer(<<"d">>, <<"D">>, <<"@", ".">>)>>,
      <<Customer(<<"d">>, <<"D">>, <<"@", ".">>), Customer(<<"c">>, <<"A">>, <<"@", ".">>),
        Customer(<<"e">>, <<"A">>, <<"@", ".">>)>>,
      <<Customer(<<" ", "c">>, <<"A", " ">>, <<" ", "@", ".">>)>>,
      <<Customer(<<"c">>, <<"A">>, <<"e">>)>>,
      <<Customer(<<"c">>, <<" ">>, <<"@", ".">>), Customer(<<"d">>, <<"D">>, <<"@", ".">>)>>,
      <<[customer_id |-> <<"c">>, name |-> <<"A">>], NonDict,
        Customer(<<"d">>, <<"D">>, <<"@", ".">>), Customer(<<"c">>, <<"A">>, <<"@", ".">>)>>,
      <<Customer(<<"c">>, <<"A">>, <<"@", ".">>), Customer(<<"d">>, <<"D">>, <<"@", ".">>),
        Customer(<<"c">>, <<"D">>, <<"@", ".">>)>> }

InitCustomerFilesAny == NoFile \cup {Array(l) : l \in RawCustomerLists}

InitReservationFiles ==
    {Array(<<Reservation(<<"r">>, <<"c">>, <<"x">>)>>)}

\* reservation files as they may be found: two reservations, padded fields,
\* records _validate_record drops (missing hotel_id, blank customer_id, blank
\* reservation_id) next to valid ones, a dropped record that carries the id of
\* a valid one, two records of one id for two hotels
RawReservationLists ==
    { <<>>,
      <<Reservation(<<"r">>, <<"c">>, <<"x">>)>>,
      <<Reservation(<<"r">>, <<"c">>, <<"x">>), Reservation(<<"s">>, <<"c">>, <<"y">>)>>,
      <<Reservation(<<" ", "r">>, <<"c", " ">>, <<" ", "x", " ">>)>>,
      <<[reservation_id |-> <<"r">>, customer_id |-> <<"c">>],
        Reservation(<<"s">>, <<"c">>, <<"x">>)>>,
      <<Reservation(<<"r">>, <<" ">>, <<"x">>), NonDict,
        Reservation(<<"s">>, <<"c">>, <<"x">>)>>,
      <<Reservation(<<"r">>, <<"c">>, <<>>), Reservation(<<"r">>, <<"c">>, <<"x">>)>>,
      <<Reservation(<<" ">>, <<"c">>, <<"x">>), Reservation(<<"r">>, <<"c">>, <<"x">>)>>,
      <<Reservation(<<"r">>, <<"c">>, <<"x">>), Reservation(<<"s">>, <<"c">>, <<"x">>),
        Reservation(<<"r">>, <<"d">>, <<"y">>)>> }

InitReservationFilesAny == NoFile \cup {Array(l) : l \in RawReservationLists}

Last(op, args, n, o) ==
    [op |-> op, args |-> args, n |-> n, res |-> o.res, ret |-> o.ret, io |-> o.io]

\* between two calls: the caller holds no result
NoCall == [op |-> "none", args |-> <<>>, n |-> 0, res |-> "ok", ret |-> None,
           io |-> <<>>]

Ready == last.op = "none"

\* no caller has begun a concurrent call
NoCalls == [p \in 1..MaxCallers |-> [pc |-> "idle"]]

Init ==
    /\ hotelFile \in InitHotelFiles
    /\ customerFile \in InitCustomerFiles
    /\ reservationFile \in InitReservationFiles
    /\ uuid = 0
    /\ last = NoCall
    /\ calls = NoCalls

(***************************************************************************)
(* One action per public method.  W is the set of outcomes a file write    *)
(* may have, U the number of uuid4() draws of the behaviour.  A create     *)
(* draws uuid4() only once its checks have passed.  The program is         *)
(* single-threaded and synchronous: a call runs to completion, `last` is   *)
(* what the caller then holds (the call, its result, the diagnostics of    *)
(* its writes), and Return is the caller going on to its next call.        *)
(***************************************************************************)
Draws(o) == IF o.res = "ok" THEN 1 ELSE 0

\* a write outcome is drawn only by a call that reaches a write; o is the
\* outcome of the call when its writes succeed
Writes(W, o) == IF o.io = <<>> THEN {"ok"} ELSE W

\* the caller of a hotel repository method is handed its outcome
HotelCall(op, args, n, o) ==
    /\ hotelFile' = o.file
    /\ last' = Last(op, args, n, o)
    /\ UNCHANGED <<customerFile, reservationFile, calls>>

CustomerCall(op, args, n, o) ==
    /\ customerFile' = o.file
    /\ last' = Last(op, args, n, o)
    /\ UNCHANGED <<hotelFile, reservationFile, calls>>

ReservationCall(op, args, n, o) ==
    /\ hotelFile' = o.hfile
    /\ reservationFile' = o.rfile
    /\ last' = Last(op, args, n, o)
    /\ UNCHANGED <<customerFile, calls>>

\* a create draws uuid4() when it succeeds
Create(o, U) ==
    /\ uuid + Draws(o) <= U
    /\ uuid' = uuid + Draws(o)

CreateHotel(W, U) ==
    /\ Ready
    /\ \E a \in HotelArgs :
         \E w \in Writes(W, create_hotel(hotelFile, a.name, a.city, a.total_rooms,
                                         Uuid4(uuid + 1), "ok")) :
           \E o \in {create_hotel(hotelFile, a.name, a.city, a.total_rooms,
                                  Uuid4(uuid + 1), w)} :
              /\ Create(o, U)
              /\ HotelCall("create_hotel", <<a.name, a.city>>, a.total_rooms, o)

GetHotel(U) ==
    /\ Ready
    /\ \E hotel_id \in HotelIds(U) :
         HotelCall("get_hotel", <<hotel_id>>, 0,
                   Outcome(get_hotel(hotelFile, hotel_id), hotelFile, <<>>))
    /\ UNCHANGED uuid

DisplayHotel(U) ==
    /\ Ready
    /\ \E hotel_id \in HotelIds(U) :
         HotelCall("display_hotel", <<hotel_id>>, 0,
                   Outcome(display_hotel(hotelFile, hotel_id), hotelFile, <<>>))
    /\ UNCHANGED uuid

ModifyHotel(W, U) ==
    /\ Ready
    /\ \E hotel_id \in HotelIds(U), a \in HotelArgs :
         \E w \in Writes(W, modify_hotel(hotelFile, hotel_id, a.name, a.city,
                                         a.total_rooms, "ok")) :
           \E o \in {modify_hotel(hotelFile, hotel_id, a.name, a.city,
                                  a.total_rooms, w)} :
              HotelCall("modify_hotel", <<hotel_id, a.name, a.city>>,
                        a.total_rooms, o)
    /\ UNCHANGED uuid

DeleteHotel(W, U) ==
    /\ Ready
    /\ \E hotel_id \in HotelIds(U) :
         \E w \in Writes(W, delete_hotel(hotelFile, hotel_id, "ok")) :
           \E o \in {delete_hotel(hotelFile, hotel_id, w)} :
              HotelCall("delete_hotel", <<hotel_id>>, 0, o)
    /\ UNCHANGED uuid

ReserveRoom(W, U) ==
    /\ Ready
    /\ \E hotel_id \in HotelIds(U) :
         \E w \in Writes(W, reserve_room(hotelFile, hotel_id, "ok")) :
           \E o \in {reserve_room(hotelFile, hotel_id, w)} :
              HotelCall("reserve_room", <<hotel_id>>, 0, o)
    /\ UNCHANGED uuid

CancelRoomReservation(W, U) ==
    /\ Ready
    /\ \E hotel_id \in HotelIds(U) :
         \E w \in Writes(W, cancel_room_reservation(hotelFile, hotel_id, "ok")) :
           \E o \in {cancel_room_reservation(hotelFile, hotel_id, w)} :
              HotelCall("cancel_room_reservation", <<hotel_id>>, 0, o)
    /\ UNCHANGED uuid

CreateCustomer(W, U) ==
    /\ Ready
    /\ \E a \in CustomerArgs :
         \E w \in Writes(W, create_customer(customerFile, a.name, a.email,
                                            Uuid4(uuid + 1), "ok")) :
           \E o \in {create_customer(customerFile, a.name, a.email,
                                     Uuid4(uuid + 1), w)} :
              /\ Create(o, U)
              /\ CustomerCall("create_customer", <<a.name, a.email>>, 0, o)

GetCustomer(U) ==
    /\ Ready
    /\ \E customer_id \in CustomerIds(U) :
         CustomerCall("get_customer", <<customer_id>>, 0,
                      Outcome(get_customer(customerFile, customer_id),
                              customerFile, <<>>))
    /\ UNCHANGED uuid

DisplayCustomer(U) ==
    /\ Ready
    /\ \E customer_id \in CustomerIds(U) :
         CustomerCall("display_customer", <<customer_id>>, 0,
                      Outcome(display_customer(customerFile, customer_id),
                              customerFile, <<>>))
    /\ UNCHANGED uuid

ModifyCustomer(W, U) ==
    /\ Ready
    /\ \E customer_id \in CustomerIds(U), a \in CustomerArgs :
         \E w \in Writes(W, modify_customer(customerFile, customer_id, a.name,
                                            a.email, "ok")) :
           \E o \in {modify_customer(customerFile, customer_id, a.name,
                                     a.email, w)} :
              CustomerCall("modify_customer", <<customer_id, a.name, a.email>>, 0, o)
    /\ UNCHANGED uuid

DeleteCustomer(W, U) ==
    /\ Ready
    /\ \E customer_id \in CustomerIds(U) :
         \E w \in Writes(W, delete_customer(customerFile, customer_id, "ok")) :
           \E o \in {delete_customer(customerFile, customer_id, w)} :
              CustomerCall("delete_customer", <<customer_id>>, 0, o)
    /\ UNCHANGED uuid

CreateReservation(W, U) ==
    /\ Ready
    /\ \E customer_id \in CustomerIds(U), hotel_id \in HotelIds(U) :
         \E wh, wr \in Writes(W, create_reservation(customerFile, hotelFile,
                                     reservationFile, customer_id, hotel_id,
                                     Uuid4(uuid + 1), "ok", "ok")) :
           \E o \in {create_reservation(customerFile, hotelFile, reservationFile,
                                        customer_id, hotel_id, Uuid4(uuid + 1),
                                        wh, wr)} :
              /\ Create(o, U)
              /\ ReservationCall("create_reservation", <<customer_id, hotel_id>>,
                                 0, o)

CancelReservation(W, U) ==
    /\ Ready
    /\ \E reservation_id \in ReservationIds(U) :
         \E wh, wr \in Writes(W, cancel_reservation(hotelFile, reservationFile,
                                                    reservation_id, "ok", "ok")) :
           \E o \in {cancel_reservation(hotelFile, reservationFile, reservation_id,
                                        wh, wr)} :
              ReservationCall("cancel_reservation", <<reservation_id>>, 0, o)
    /\ UNCHANGED uuid

DisplayReservation(U) ==
    /\ Ready
    /\ \E reservation_id \in ReservationIds(U) :
         ReservationCall("display_reservation", <<reservation_id>>, 0,
                         Outcome2(display_reservation(reservationFile, reservation_id),
                                  hotelFile, reservationFile, <<>>))
    /\ UNCHANGED uuid

\* the Hotel values of the dataclass: any two integers as room counts
HotelValues(B) ==
    {Hotel(<<"x">>, <<"A">>, <<"C">>, total_rooms, reserved_rooms) :
        total_rooms \in (0 - B)..B, reserved_rooms \in (0 - B)..B}

\* the property available_rooms read on a Hotel value
AvailableRooms(B) ==
    /\ Ready
    /\ \E hotel \in HotelValues(B) :
         last' = Last("available_rooms", <<>>, available_rooms(hotel),
                      [res |-> "ok", ret |-> hotel, io |-> <<>>])
    /\ UNCHANGED <<hotelFile, customerFile, reservationFile, uuid, calls>>

\* caller p runs create_customer up to its file read
CreateCustomerRead(p) ==
    /\ calls[p].pc = "idle"
    /\ \E a \in CustomerArgs :
         \E r \in {create_customer_read(customerFile, Strip(a.name), Strip(a.email),
                                        Uuid4(uuid + 1))} :
            /\ uuid' = uuid + Draws(r)
            /\ calls' = [calls EXCEPT ![p] =
                           IF r.res = "ok"
                               THEN [pc |-> "read", res |-> r.res, ret |-> r.ret,
                                     customers |-> r.customers]
                               ELSE [pc |-> "done", res |-> r.res, ret |-> r.ret,
                                     customers |-> <<>>]]
    /\ UNCHANGED <<hotelFile, customerFile, reservationFile, last>>

\* caller p runs the rest of its create_customer: the file write and the return
CreateCustomerWrite(p) ==
    /\ calls[p].pc = "read"
    /\ customerFile' = create_customer_write(customerFile, calls[p].ret,
                                             calls[p].customers, "ok")
    /\ calls' = [calls EXCEPT ![p].pc = "done"]
    /\ UNCHANGED <<hotelFile, reservationFile, uuid, last>>

Return ==
    /\ ~Ready
    /\ last' = NoCall
    /\ UNCHANGED <<hotelFile, customerFile, reservationFile, uuid, calls>>

\* every public operation; a write may fail
Next ==
    \/ CreateHotel(WriteOutcomes, MaxUuid)
    \/ GetHotel(MaxUuid)
    \/ DisplayHotel(MaxUuid)
    \/ ModifyHotel(WriteOutcomes, MaxUuid)
    \/ DeleteHotel(WriteOutcomes, MaxUuid)
    \/ ReserveRoom(WriteOutcomes, MaxUuid)
    \/ CancelRoomReservation(WriteOutcomes, MaxUuid)
    \/ CreateCustomer(WriteOutcomes, MaxUuid)
    \/ GetCustomer(MaxUuid)
    \/ DisplayCustomer(MaxUuid)
    \/ ModifyCustomer(WriteOutcomes, MaxUuid)
    \/ DeleteCustomer(WriteOutcomes, MaxUuid)
    \/ CreateReservation(WriteOutcomes, MaxUuid)
    \/ CancelReservation(WriteOutcomes, MaxUuid)
    \/ DisplayReservation(MaxUuid)
    \/ Return

Spec == Init /\ [][Next]_vars

\* every public operation; every write succeeds
NextReliable ==
    \/ CreateHotel({"ok"}, MaxUuid)
    \/ GetHotel(MaxUuid)
    \/ DisplayHotel(MaxUuid)
    \/ ModifyHotel({"ok"}, MaxUuid)
    \/ DeleteHotel({"ok"}, MaxUuid)
    \/ ReserveRoom({"ok"}, MaxUuid)
    \/ CancelRoomReservation({"ok"}, MaxUuid)
    \/ CreateCustomer({"ok"}, MaxUuid)
    \/ GetCustomer(MaxUuid)
    \/ DisplayCustomer(MaxUuid)
    \/ ModifyCustomer({"ok"}, MaxUuid)
    \/ DeleteCustomer({"ok"}, MaxUuid)
    \/ CreateReservation({"ok"}, MaxUuid)
    \/ CancelReservation({"ok"}, MaxUuid)
    \/ DisplayReservation(MaxUuid)
    \/ Return

SpecReliable == Init /\ [][NextReliable]_vars

\* empty hotel and reservation stores
InitLinked ==
    /\ hotelFile = EmptyArray
    /\ customerFile \in InitCustomerFiles
    /\ reservationFile = EmptyArray
    /\ uuid = 0
    /\ last = NoCall
    /\ calls = NoCalls

\* reservations are made and cancelled through the reservation repository
\* only, hotels are never deleted, every write succeeds
NextLinked ==
    \/ CreateHotel({"ok"}, MaxLinkedUuid)
    \/ CreateCustomer({"ok"}, MaxLinkedUuid)
    \/ ModifyHotel({"ok"}, MaxLinkedUuid)
    \/ CreateReservation({"ok"}, MaxLinkedUuid)
    \/ CancelReservation({"ok"}, MaxLinkedUuid)
    \/ Return

SpecLinked == InitLinked /\ [][NextLinked]_vars

\* every public operation, from empty hotel and reservation stores; every
\* write succeeds
NextStores ==
    \/ CreateHotel({"ok"}, MaxStoresUuid)
    \/ GetHotel(MaxStoresUuid)
    \/ DisplayHotel(MaxStoresUuid)
    \/ ModifyHotel({"ok"}, MaxStoresUuid)
    \/ DeleteHotel({"ok"}, MaxStoresUuid)
    \/ ReserveRoom({"ok"}, MaxStoresUuid)
    \/ CancelRoomReservation({"ok"}, MaxStoresUuid)
    \/ CreateCustomer({"ok"}, MaxStoresUuid)
    \/ GetCustomer(MaxStoresUuid)
    \/ DisplayCustomer(MaxStoresUuid)
    \/ ModifyCustomer({"ok"}, MaxStoresUuid)
    \/ DeleteCustomer({"ok"}, MaxStoresUuid)
    \/ CreateReservation({"ok"}, MaxStoresUuid)
    \/ CancelReservation({"ok"}, MaxStoresUuid)
    \/ DisplayReservation(MaxStoresUuid)
    \/ Return

SpecStores == InitLinked /\ [][NextStores]_vars

\* the customer repository on its own, from any customer file; a write may
\* fail
InitCustomers ==
    /\ hotelFile = EmptyArray
    /\ customerFile \in InitCustomerFilesAny
    /\ reservationFile = EmptyArray
    /\ uuid = 0
    /\ last = NoCall
    /\ calls = NoCalls

NextCustomers ==
    \/ CreateCustomer(WriteOutcomes, MaxCustomerUuid)
    \/ GetCustomer(MaxCustomerUuid)
    \/ DisplayCustomer(MaxCustomerUuid)
    \/ ModifyCustomer(WriteOutcomes, MaxCustomerUuid)
    \/ DeleteCustomer(WriteOutcomes, MaxCustomerUuid)
    \/ Return

SpecCustomers == InitCustomers /\ [][NextCustomers]_vars

\* Hotel values on their own: no file is read or written
InitHotelValue ==
    /\ hotelFile = EmptyArray
    /\ customerFile = EmptyArray
    /\ reservationFile = EmptyArray
    /\ uuid = 0
    /\ last = NoCall
    /\ calls = NoCalls

NextHotelValue ==
    \/ AvailableRooms(MaxHotelValue)
    \/ Return

SpecHotelValue == InitHotelValue /\ [][NextHotelValue]_vars

\* the lookups of the three repositories on files as they may be found
InitLoad ==
    /\ hotelFile \in InitHotelFiles
    /\ customerFile \in InitCustomerFilesAny
    /\ reservationFile \in InitReservationFilesAny
    /\ uuid = 0
    /\ last = NoCall
    /\ calls = NoCalls

NextLoad ==
    \/ GetHotel(0)
    \/ GetCustomer(0)
    \/ DisplayReservation(0)
    \/ Return

SpecLoad == InitLoad /\ [][NextLoad]_vars

\* a reservation file that is missing, blank, unparseable, no array or no
\* text; the hotel and customer files are in the same condition or hold one
\* record
InitNoFile ==
    /\ \E f \in NoFile \cup {Undecodable} :
         /\ reservationFile = f
         /\ hotelFile \in {f, Array(<<RawHotel(<<"x">>, JNum(1), JNum(0))>>)}
         /\ customerFile \in {f} \cup InitCustomerFiles
    /\ uuid = 0
    /\ last = NoCall
    /\ calls = NoCalls

\* every public operation; a write may fail
NextNoFile ==
    \/ CreateHotel(WriteOutcomes, MaxNoFileUuid)
    \/ GetHotel(MaxNoFileUuid)
    \/ DisplayHotel(MaxNoFileUuid)
    \/ ModifyHotel(WriteOutcomes, MaxNoFileUuid)
    \/ DeleteHotel(WriteOutcomes, MaxNoFileUuid)
    \/ ReserveRoom(WriteOutcomes, MaxNoFileUuid)
    \/ CancelRoomReservation(WriteOutcomes, MaxNoFileUuid)
    \/ CreateCustomer(WriteOutcomes, MaxNoFileUuid)
    \/ GetCustomer(MaxNoFileUuid)
    \/ DisplayCustomer(MaxNoFileUuid)
    \/ ModifyCustomer(WriteOutcomes, MaxNoFileUuid)
    \/ DeleteCustomer(WriteOutcomes, MaxNoFileUuid)
    \/ CreateReservation(WriteOutcomes, MaxNoFileUuid)
    \/ CancelReservation(WriteOutcomes, MaxNoFileUuid)
    \/ DisplayReservation(MaxNoFileUuid)
    \/ Return

SpecNoFile == InitNoFile /\ [][NextNoFile]_vars

\* the operations that write the hotel file or the reservation file, from
\* empty hotel and reservation stores; every write succeeds
NextBooking ==
    \/ CreateHotel({"ok"}, MaxBookingUuid)
    \/ ModifyHotel({"ok"}, MaxBookingUuid)
    \/ DeleteHotel({"ok"}, MaxBookingUuid)
    \/ ReserveRoom({"ok"}, MaxBookingUuid)
    \/ CancelRoomReservation({"ok"}, MaxBookingUuid)
    \/ CreateReservation({"ok"}, MaxBookingUuid)
    \/ CancelReservation({"ok"}, MaxBookingUuid)
    \/ Return

SpecBooking == InitLinked /\ [][NextBooking]_vars

\* cancel_reservation and the lookups on files as they may be found; every
\* write succeeds
NextCancel ==
    \/ CancelReservation({"ok"}, 0)
    \/ DisplayReservation(0)
    \/ GetHotel(0)
    \/ Return

SpecCancel == InitLoad /\ [][NextCancel]_vars

\* the three creates on files as they may be found; every write succeeds
NextCreate ==
    \/ CreateHotel({"ok"}, MaxCreateUuid)
    \/ CreateCustomer({"ok"}, MaxCreateUuid)
    \/ CreateReservation({"ok"}, MaxCreateUuid)
    \/ Return

SpecCreate == InitLoad /\ [][NextCreate]_vars

\* every public operation on files as they may be found, by a caller that
\* holds the identifiers found in them; every write succeeds
NextFrame ==
    \/ CreateHotel({"ok"}, 0)
    \/ GetHotel(0)
    \/ DisplayHotel(0)
    \/ ModifyHotel({"ok"}, 0)
    \/ DeleteHotel({"ok"}, 0)
    \/ ReserveRoom({"ok"}, 0)
    \/ CancelRoomReservation({"ok"}, 0)
    \/ CreateCustomer({"ok"}, 0)
    \/ GetCustomer(0)
    \/ DisplayCustomer(0)
    \/ ModifyCustomer({"ok"}, 0)
    \/ DeleteCustomer({"ok"}, 0)
    \/ CreateReservation({"ok"}, 0)
    \/ CancelReservation({"ok"}, 0)
    \/ DisplayReservation(0)
    \/ Return

SpecFrame == InitLoad /\ [][NextFrame]_vars

(***************************************************************************)
(* storage.py on the characters of the file.  json.dumps and json.loads    *)
(* are modelled for what the repositories store: an array whose elements   *)
(* are objects with string and integer values, or strings and integers     *)
(* themselves (elements that are no object).  A string value is            *)
(* [str |-> s], an integer [num |-> n], an element that is no object       *)
(* [nondict |-> TRUE, json |-> its value]; the keys of an object are one   *)
(* character long, so that a key is the character itself.                  *)
(***************************************************************************)
Quote == "\""
Backslash == "\\"
Newline == "\n"

\* the keys of an object, in the order json.dumps writes them
KeyOrder == <<"a", "b">>

\* the character of a decimal digit
DigitChar(d) == IF d = 0 THEN "0" ELSE Digits[d]

\* str(n) of a non-negative integer
RECURSIVE Decimal(_)
Decimal(n) ==
    IF n < 10 THEN <<DigitChar(n)>> ELSE Decimal(n \div 10) \o <<DigitChar(n % 10)>>

\* a character of a string as json.dumps(ensure_ascii=False) writes it
json_escape(c) ==
    IF c = Quote THEN <<Backslash, Quote>>
    ELSE IF c = Backslash THEN <<Backslash, Backslash>>
    ELSE IF c = Newline THEN <<Backslash, "n">>
    ELSE <<c>>

json_dumps_string(s) == <<Quote>> \o Flatten(MapSeq(s, json_escape)) \o <<Quote>>

json_dumps_int(n) == IF n < 0 THEN <<"-">> \o Decimal(0 - n) ELSE Decimal(n)

json_dumps_scalar(v) ==
    IF "num" \in DOMAIN v THEN json_dumps_int(v.num) ELSE json_dumps_string(v.str)

\* sep.join(parts)
RECURSIVE Join(_, _)
Join(parts, sep) ==
    IF parts = <<>> THEN <<>>
    ELSE IF Len(parts) = 1 THEN parts[1]
    ELSE parts[1] \o sep \o Join(Tail(parts), sep)

\* the newline and indentation json.dumps writes at a nesting level; indent 0
\* stands for indent=None, where everything is on one line
json_newline(indent, level) ==
    IF indent = 0 THEN <<>> ELSE <<Newline>> \o [i \in 1..(indent * level) |-> " "]

\* the item separator: "," before a new line, or ", " on one line
json_separator(indent, level) ==
    IF indent = 0 THEN <<",", " ">> ELSE <<",">> \o json_newline(indent, level)

json_dumps_member(d, k) ==
    json_dumps_string(<<k>>) \o <<":", " ">> \o json_dumps_scalar(d[k])

json_dumps_dict(d, indent) ==
    IF DOMAIN d = {} THEN <<"{", "}">>
    ELSE
    <<"{">> \o json_newline(indent, 2)
    \o Join(MapSeq(SelectSeq(KeyOrder, LAMBDA k : k \in DOMAIN d),
                   LAMBDA k : json_dumps_member(d, k)),
            json_separator(indent, 2))
    \o json_newline(indent, 1) \o <<"}">>

json_dumps_element(e, indent) ==
    IF IsDict(e) THEN json_dumps_dict(e, indent) ELSE json_dumps_scalar(e.json)

\* json.dumps(data, indent=indent, ensure_ascii=False) of a list
json_dumps(data, indent) ==
    IF data = <<>> THEN <<"[", "]">>
    ELSE <<"[">> \o json_newline(indent, 1)
         \o Join(MapSeq(data, LAMBDA e : json_dumps_element(e, indent)),
                 json_separator(indent, 1))
         \o json_newline(indent, 0) \o <<"]">>

\* what a scan returns: whether it succeeded, the value read and the
\* position after it; a scan that fails stands for json.JSONDecodeError
Scanned(v, i) == [ok |-> TRUE, v |-> v, i |-> i]
JSONDecodeError == [ok |-> FALSE, v |-> None, i |-> 0]

\* the character at a position, "" past the end
At(t, i) == IF i <= Len(t) THEN t[i] ELSE ""

RECURSIVE skip_whitespace(_, _)
skip_whitespace(t, i) ==
    IF At(t, i) \in {" ", Newline} THEN skip_whitespace(t, i + 1) ELSE i

\* a string literal from the character after its opening quote
RECURSIVE scan_string(_, _, _)
scan_string(t, i, acc) ==
    IF i > Len(t) \/ At(t, i) = Newline THEN JSONDecodeError
    ELSE IF t[i] = Quote THEN Scanned(acc, i + 1)
    ELSE IF t[i] # Backslash THEN scan_string(t, i + 1, Append(acc, t[i]))
    ELSE IF At(t, i + 1) \in {Quote, Backslash}
        THEN scan_string(t, i + 2, Append(acc, t[i + 1]))
    ELSE IF At(t, i + 1) = "n" THEN scan_string(t, i + 2, Append(acc, Newline))
    ELSE JSONDecodeError

RECURSIVE scan_digits(_, _, _)
scan_digits(t, i, n) ==
    IF IsDigit(At(t, i)) THEN scan_digits(t, i + 1, 10 * n + DigitValue(t[i]))
    ELSE Scanned(n, i)

\* the integer of the digits scanned, with its sign
scanned_int(d, sign) == Scanned(JNum(sign * d.v), d.i)

\* an integer from position i, the first character after its sign if any: no
\* digit may follow a leading 0
scan_int(t, i, sign) ==
    IF ~IsDigit(At(t, i)) THEN JSONDecodeError
    ELSE IF t[i] = "0" THEN Scanned(JNum(0), i + 1)
    ELSE scanned_int(scan_digits(t, i, 0), sign)

scanned_str(s) == IF s.ok THEN Scanned(JStr(s.v), s.i) ELSE JSONDecodeError

\* a string or an integer from position i
scan_scalar(t, i) ==
    IF At(t, i) = Quote THEN scanned_str(scan_string(t, i + 1, <<>>))
    ELSE IF At(t, i) = "-" THEN scan_int(t, i + 1, 0 - 1)
    ELSE scan_int(t, i, 1)

\* {}
EmptyDict == [k \in {} |-> None]

RECURSIVE scan_members(_, _, _)

\* after the value of a member: "}" or "," and the next member
scan_member_end(t, i, d) ==
    IF At(t, i) = "}" THEN Scanned(d, i + 1)
    ELSE IF At(t, i) = "," /\ At(t, skip_whitespace(t, i + 1)) = Quote
        THEN scan_members(t, skip_whitespace(t, i + 1), d)
    ELSE JSONDecodeError

\* the member k: val is put into the dict, over an earlier value of k
scan_member_value(t, k, val, d) ==
    IF ~val.ok THEN JSONDecodeError
    ELSE scan_member_end(t, skip_whitespace(t, val.i), (k :> val.v) @@ d)

\* after the key of a member: ":" and the value
scan_member_colon(t, key, i, d) ==
    IF At(t, i) # ":" THEN JSONDecodeError
    ELSE scan_member_value(t, key, scan_scalar(t, skip_whitespace(t, i + 1)), d)

\* the key of a member, a string of one character
scan_member_key(t, key, d) ==
    IF ~key.ok \/ Len(key.v) # 1 THEN JSONDecodeError
    ELSE scan_member_colon(t, key.v[1], skip_whitespace(t, key.i), d)

\* the members of an object from the opening quote of a key on
scan_members(t, i, d) == scan_member_key(t, scan_string(t, i + 1, <<>>), d)

\* an object from the first character after "{" and whitespace
scan_dict(t, i) ==
    IF At(t, i) = "}" THEN Scanned(EmptyDict, i + 1)
    ELSE IF At(t, i) = Quote THEN scan_members(t, i, EmptyDict)
    ELSE JSONDecodeError

\* an element that is a string or an integer
scanned_nondict(s) ==
    IF s.ok THEN Scanned([nondict |-> TRUE, json |-> s.v], s.i) ELSE JSONDecodeError

scan_element(t, i) ==
    IF At(t, i) = "{" THEN scan_dict(t, skip_whitespace(t, i + 1))
    ELSE scanned_nondict(scan_scalar(t, i))

RECURSIVE scan_elements(_, _, _)

\* after an element of an array: "]" or "," and the next element
scan_list_end(t, i, items) ==
    IF At(t, i) = "]" THEN Scanned(items, i + 1)
    ELSE IF At(t, i) = "," THEN scan_elements(t, skip_whitespace(t, i + 1), items)
    ELSE JSONDecodeError

scanned_element(t, e, items) ==
    IF ~e.ok THEN JSONDecodeError
    ELSE scan_list_end(t, skip_whitespace(t, e.i), Append(items, e.v))

\* the elements of an array from the first character of an element on
scan_elements(t, i, items) == scanned_element(t, scan_element(t, i), items)

\* an array from the first character after "[" and whitespace
scan_list(t, i) ==
    IF At(t, i) = "]" THEN Scanned(<<>>, i + 1) ELSE scan_elements(t, i, <<>>)

\* the value scanned is the document when only whitespace follows it
scanned_document(raw, s, list) ==
    IF s.ok /\ skip_whitespace(raw, s.i) = Len(raw) + 1
        THEN [ok |-> TRUE, list |-> list, v |-> s.v]
    ELSE [ok |-> FALSE, list |-> FALSE, v |-> None]

\* json.loads(raw): a list, another value, or json.JSONDecodeError
json_loads(raw) ==
    IF At(raw, 1) = "[" THEN scanned_document(raw, scan_list(raw, skip_whitespace(raw, 2)), TRUE)
    ELSE scanned_document(raw, scan_element(raw, 1), FALSE)

\* str.strip() of the text of a file: spaces and newlines
RECURSIVE strip_end(_)
strip_end(text) ==
    IF text # <<>> /\ text[Len(text)] \in {" ", Newline}
        THEN strip_end(SubSeq(text, 1, Len(text) - 1))
    ELSE text

strip_text(text) == strip_end(SubSeq(text, skip_whitespace(text, 1), Len(text)))

\* what load_json_list makes of the stripped text and of json.loads of it
file_loaded(raw, data) ==
    IF raw = <<>> THEN [kind |-> "blank", items |-> <<>>]
    ELSE IF ~data.ok THEN [kind |-> "corrupt", items |-> <<>>]
    ELSE IF ~data.list THEN [kind |-> "object", items |-> <<>>]
    ELSE Array(data.v)

\* the file that holds this text
file_of_text(text) == file_loaded(strip_text(text), json_loads(strip_text(text)))

\* save_json_list on the characters: the text of json.dumps(data, indent=2,
\* ensure_ascii=False) is what path.write_text writes
save_json_list_text(file, data, w) ==
    CASE w = "ok"    -> file_of_text(json_dumps(data, 2))
      [] w = "keep"  -> file
      [] w = "trunc" -> [kind |-> "blank", items |-> <<>>]

\* objects a caller saves: integers of one and two digits, negative, zero;
\* strings that are empty, padded, a digit, with quotes, backslashes, commas,
\* brackets and a newline; one key, two keys, none
StorageDicts ==
    { [a |-> JNum(1)],
      [a |-> JStr(<<"1">>), b |-> JNum(0 - 12)],
      [a |-> JStr(<<" ", Quote, ",", Backslash, " ">>), b |-> JNum(10)],
      [a |-> JNum(0), b |-> JStr(<<"]", Newline, "}">>)],
      EmptyDict }

\* the lists of at most B objects
StorageLists(B) == UNION {[1..n -> StorageDicts] : n \in 0..B}

\* arrays found in a file: objects between, before and after elements that
\* are no object
StorageArrays ==
    { <<[a |-> JNum(1)], [nondict |-> TRUE, json |-> JNum(2)],
        [nondict |-> TRUE, json |-> JStr(<<"x">>)], [b |-> JNum(2)]>>,
      <<[nondict |-> TRUE, json |-> JNum(2)]>>,
      <<[nondict |-> TRUE, json |-> JStr(<<"x">>)], [b |-> JNum(2)], [a |-> JNum(1)]>>,
      <<[b |-> JNum(2)], [a |-> JNum(1)], [b |-> JNum(2)]>>,
      <<[a |-> JStr(<<>>)], [nondict |-> TRUE, json |-> JStr(<<"{", "}">>)]>> }

\* texts found in a file: arrays written on one line or indented, with
\* whitespace around them; no text, whitespace; text that is no JSON; a JSON
\* document that is no array
StorageTexts ==
    {json_dumps(l, indent) : l \in StorageArrays, indent \in {0, 2}}
    \cup {<<" ", Newline>> \o json_dumps(l, 0) \o <<Newline>> : l \in StorageArrays}
    \cup { <<>>, <<" ", Newline>>, <<"{", "e", "s", "t", "o">>, <<"[", "1", ",", "]">>,
           <<"[", "{", Quote, "a", Quote, ":", " ", "1", "}">>,
           json_dumps_dict([a |-> JNum(1)], 2), <<"7">> }

\* load_json_list and save_json_list on one path, whose file is hotelFile:
\* a file with one of the texts, no file, or a file that is not UTF-8
InitStorage ==
    /\ hotelFile \in {file_of_text(t) : t \in StorageTexts}
                     \cup {[kind |-> "missing", items |-> <<>>], Undecodable}
    /\ customerFile = EmptyArray
    /\ reservationFile = EmptyArray
    /\ uuid = 0
    /\ last = NoCall
    /\ calls = NoCalls

SaveJsonList(W, B) ==
    /\ Ready
    /\ \E data \in StorageLists(B), w \in W :
         /\ hotelFile' = save_json_list_text(hotelFile, data, w)
         /\ last' = Last("save_json_list", data, 0,
                         [res |-> "ok", ret |-> None, io |-> <<w>>])
    /\ UNCHANGED <<customerFile, reservationFile, uuid, calls>>

\* the list returned is the field cleaned of the result
LoadJsonList ==
    /\ Ready
    /\ last' = Last("load_json_list", <<>>, 0,
                    IF read_text_raises(hotelFile)
                        THEN [res |-> UnicodeDecodeError.res, ret |-> None, io |-> <<>>]
                        ELSE [res |-> "ok",
                              ret |-> [cleaned |-> load_json_list(hotelFile)],
                              io |-> <<>>])
    /\ UNCHANGED <<hotelFile, customerFile, reservationFile, uuid, calls>>

NextStorage ==
    \/ SaveJsonList(WriteOutcomes, MaxListLen)
    \/ LoadJsonList
    \/ Return

SpecStorage == InitStorage /\ [][NextStorage]_vars

\* callers that run create_customer on the same customer file without
\* waiting for each other: the steps of their calls interleave at the file
\* read and the file write; every write succeeds
InitInterleaved ==
    /\ hotelFile = EmptyArray
    /\ customerFile \in InitCustomerFilesAny
    /\ reservationFile = EmptyArray
    /\ uuid = 0
    /\ last = NoCall
    /\ calls = NoCalls

NextInterleaved ==
    \E p \in 1..MaxCallers :
        \/ CreateCustomerRead(p)
        \/ CreateCustomerWrite(p)

SpecInterleaved == InitInterleaved /\ [][NextInterleaved]_vars

(***************************************************************************)
(* Observations used by the properties                                     *)
(***************************************************************************)
\* the hotels, customers and reservations a lookup can see
Hotels == Hotel_load_all(hotelFile)
Customers == Customer_load_all(customerFile)
Reservations == Reservation_load_all(reservationFile)

Range(s) == {s[i] : i \in 1..Len(s)}

\* number of persisted reservations of a hotel
ReservationsOf(reservations, hotel_id) ==
    Cardinality({i \in 1..Len(reservations) : reservations[i].hotel_id = hotel_id})

\* C1: every Hotel get_hotel returns, and every hotel of the loaded list it
\* returns from, has total_rooms > 0 and 0 <= reserved_rooms <= total_rooms,
\* whatever the hotel file held at the start and whatever operations (with
\* or without write failures) ran.
C1_HotelRoomsInRange ==
    /\ (last.op = "get_hotel" /\ last.res = "ok") =>
          /\ last.ret.total_rooms > 0
          /\ 0 <= last.ret.reserved_rooms
          /\ last.ret.reserved_rooms <= last.ret.total_rooms
    /\ Ready =>
          \A h \in Range(Hotels) :
              /\ h.total_rooms > 0
              /\ 0 <= h.reserved_rooms
              /\ h.reserved_rooms <= h.total_rooms

\* get_hotel returns a created hotel whose only room is reserved, from a
\* file that holds a second hotel
C1_Witness ==
    /\ last.op = "get_hotel"
    /\ last.res = "ok"
    /\ last.args[1] = Uuid4(1)
    /\ last.ret.reserved_rooms = last.ret.total_rooms
    /\ Len(Hotels) >= 2

\* C2: from empty hotel and reservation stores, with reservations made and
\* cancelled only through the reservation repository and all writes
\* succeeding, each persisted hotel's reserved_rooms equals the number of
\* persisted reservations that name it.
C2_ReservedMatchesReservations ==
    \A h \in Range(Hotels) :
        h.reserved_rooms = ReservationsOf(Reservations, h.hotel_id)

\* a reservation has been cancelled while another hotel still holds one
C2_Witness ==
    /\ last.op = "cancel_reservation"
    /\ last.res = "ok"
    /\ \E h \in Range(Hotels) : h.reserved_rooms = 0
    /\ Hotels # <<>>

\* C3: create_reservation for a persisted customer and a persisted hotel with
\* available_rooms >= 1 returns a Reservation, adds exactly 1 to that hotel's
\* reserved_rooms and appends exactly one record with the given customer_id
\* and hotel_id and the returned reservation_id; a hotel with total_rooms = 1
\* and reserved_rooms = 0 is left with available_rooms = 0.  Writes succeed.
C3_CreateReservationBooksOneRoom ==
    [][(/\ last'.op = "create_reservation"
        /\ get_customer(customerFile, last'.args[1]).res = "ok"
        /\ get_hotel(hotelFile, last'.args[2]).res = "ok"
        /\ available_rooms(get_hotel(hotelFile, last'.args[2]).ret) >= 1)
       => \E before \in {get_hotel(hotelFile, last'.args[2]).ret},
             after \in {get_hotel(hotelFile', last'.args[2])} :
             /\ last'.res = "ok"
             /\ last'.ret = Reservation(last'.ret.reservation_id,
                                        last'.args[1], last'.args[2])
             /\ after.res = "ok"
             /\ after.ret.reserved_rooms = before.reserved_rooms + 1
             /\ Reservation_load_all(reservationFile')
                  = Append(Reservation_load_all(reservationFile), last'.ret)
             /\ \A r \in Range(Reservation_load_all(reservationFile)) :
                   r.reservation_id # last'.ret.reservation_id
             /\ (before.total_rooms = 1 /\ before.reserved_rooms = 0)
                   => available_rooms(after.ret) = 0]_vars

\* create_reservation has taken the only room of a hotel and its record is
\* persisted
C3_Witness ==
    /\ last.op = "create_reservation"
    /\ last.res = "ok"
    /\ \E h \in Range(Hotels) :
          /\ h.hotel_id = last.args[2]
          /\ h.total_rooms = 1
          /\ available_rooms(h) = 0
    /\ \E r \in Range(Reservations) : r = last.ret

\* C4: create_reservation for a persisted customer and a persisted hotel whose
\* available_rooms is 0 raises ValidationError and leaves the hotel file and
\* the reservation file as they were.
C4_CreateReservationFullHotel ==
    [][(/\ last'.op = "create_reservation"
        /\ get_customer(customerFile, last'.args[1]).res = "ok"
        /\ get_hotel(hotelFile, last'.args[2]).res = "ok"
        /\ available_rooms(get_hotel(hotelFile, last'.args[2]).ret) = 0)
       => /\ last'.res = "Validation"
          /\ hotelFile' = hotelFile
          /\ reservationFile' = reservationFile]_vars

\* create_reservation was refused on a full hotel of a known customer
C4_Witness ==
    /\ last.op = "create_reservation"
    /\ last.res = "Validation"
    /\ get_customer(customerFile, last.args[1]).res = "ok"
    /\ \E h \in Range(Hotels) :
          h.hotel_id = last.args[2] /\ h.reserved_rooms = h.total_rooms

\* C5: once cancel_reservation(r) has returned, display_reservation(r) and a
\* second cancel_reservation(r) raise NotFoundError, and the hotel r named has
\* reserved_rooms exactly 1 lower (available_rooms exactly 1 higher) than
\* before the cancel.  Writes succeed.
C5_CancelRemovesAndReleases ==
    [][(last'.op = "cancel_reservation" /\ last'.res = "ok")
       => \E r \in {display_reservation(reservationFile, last'.args[1])} :
            /\ r.res = "ok"
            /\ display_reservation(reservationFile', last'.args[1]).res = "NotFound"
            /\ cancel_reservation(hotelFile', reservationFile', last'.args[1],
                                  "ok", "ok").res = "NotFound"
            /\ \E before \in {get_hotel(hotelFile, r.ret.hotel)},
                  after \in {get_hotel(hotelFile', r.ret.hotel)} :
                  /\ before.res = "ok"
                  /\ after.res = "ok"
                  /\ after.ret.reserved_rooms = before.ret.reserved_rooms - 1
                  /\ available_rooms(after.ret) = available_rooms(before.ret) + 1]_vars

\* a created reservation has been cancelled: its id is no longer persisted
C5_Witness ==
    /\ last.op = "cancel_reservation"
    /\ last.res = "ok"
    /\ last.args[1] = Uuid4(1)
    /\ \A r \in Range(Reservations) : r.reservation_id # last.args[1]

\* C6 as stated: cancel_reservation(id) raises only NotFoundError, and only
\* for an id that is not persisted; for a persisted id it removes the record
\* and releases one room of its hotel.
C6_CancelFailsOnlyWhenAbsent ==
    [][last'.op = "cancel_reservation"
       => \E r \in {display_reservation(reservationFile, last'.args[1])} :
            IF r.res # "ok"
                THEN last'.res = "NotFound"
                ELSE /\ last'.res = "ok"
                     /\ display_reservation(reservationFile',
                                            last'.args[1]).res = "NotFound"
                     /\ \E before \in {get_hotel(hotelFile, r.ret.hotel)},
                           after \in {get_hotel(hotelFile', r.ret.hotel)} :
                           /\ before.res = "ok"
                           /\ after.res = "ok"
                           /\ after.ret.reserved_rooms
                                = before.ret.reserved_rooms - 1]_vars

\* C6: cancel_reservation(id) raises NotFoundError for an id that is not
\* persisted.  For a persisted id it raises NotFoundError when the hotel of
\* the reservation is not persisted and ValidationError when that hotel has
\* reserved_rooms = 0, and both files stay as they were (the reservation stays
\* persisted); otherwise it removes the record and releases one room of the
\* hotel.  Writes succeed.
C6_CancelFollowsHotelRelease ==
    [][last'.op = "cancel_reservation"
       => \E r \in {display_reservation(reservationFile, last'.args[1])} :
            IF r.res # "ok"
                THEN /\ last'.res = "NotFound"
                     /\ hotelFile' = hotelFile
                     /\ reservationFile' = reservationFile
                ELSE \E before \in {get_hotel(hotelFile, r.ret.hotel)} :
                       IF before.res # "ok"
                           THEN /\ last'.res = "NotFound"
                                /\ hotelFile' = hotelFile
                                /\ reservationFile' = reservationFile
                       ELSE IF before.ret.reserved_rooms = 0
                           THEN /\ last'.res = "Validation"
                                /\ hotelFile' = hotelFile
                                /\ reservationFile' = reservationFile
                       ELSE /\ last'.res = "ok"
                            /\ Reservation_load_all(reservationFile')
                                 = SelectSeq(Reservation_load_all(reservationFile),
                                             LAMBDA x : x.reservation_id
                                                          # last'.args[1])
                            /\ get_hotel(hotelFile', r.ret.hotel).ret.reserved_rooms
                                 = before.ret.reserved_rooms - 1]_vars

\* cancel_reservation has raised for a reservation that is still persisted
C6_Witness ==
    /\ last.op = "cancel_reservation"
    /\ last.res \in {"NotFound", "Validation"}
    /\ \E r \in Range(Reservations) : r.reservation_id = last.args[1]

\* C7: create_reservation looks the customer up, then the hotel, then reserves
\* the room, then writes the record: an absent customer raises NotFoundError
\* whatever the hotel is, a persisted customer with an absent hotel raises
\* NotFoundError, both leave the hotel file and the reservation file as they
\* were, and the reservation file changes only together with the increment
\* of the hotel's reserved_rooms.
C7_CreateReservationOrder ==
    [][last'.op = "create_reservation"
       => /\ get_customer(customerFile, last'.args[1]).res # "ok"
               => /\ last'.res = "NotFound"
                  /\ hotelFile' = hotelFile
                  /\ reservationFile' = reservationFile
          /\ (/\ get_customer(customerFile, last'.args[1]).res = "ok"
              /\ get_hotel(hotelFile, last'.args[2]).res # "ok")
               => /\ last'.res = "NotFound"
                  /\ hotelFile' = hotelFile
                  /\ reservationFile' = reservationFile
          /\ reservationFile' # reservationFile
               => /\ get_hotel(hotelFile, last'.args[2]).res = "ok"
                  /\ get_hotel(hotelFile', last'.args[2]).ret.reserved_rooms
                       = get_hotel(hotelFile, last'.args[2]).ret.reserved_rooms + 1]_vars

\* create_reservation has raised NotFoundError for an unknown customer on a
\* persisted hotel with a free room
C7_Witness ==
    /\ last.op = "create_reservation"
    /\ last.res = "NotFound"
    /\ get_customer(customerFile, last.args[1]).res # "ok"
    /\ \E h \in Range(Hotels) :
          h.hotel_id = last.args[2] /\ available_rooms(h) >= 1

\* C8: when, in create_reservation, reserve_room has persisted its increment
\* and the write of the reservation file fails, create_reservation returns the
\* Reservation without raising, the hotel's reserved_rooms is 1 higher than
\* before (nothing is given back) and no record with the returned id is
\* persisted.
C8_FailedReservationWriteKeepsRoom ==
    [][(/\ last'.op = "create_reservation"
        /\ Len(last'.io) = 2
        /\ last'.io[1] = "ok"
        /\ last'.io[2] # "ok")
       => /\ last'.res = "ok"
          /\ last'.ret = Reservation(last'.ret.reservation_id,
                                     last'.args[1], last'.args[2])
          /\ get_hotel(hotelFile', last'.args[2]).res = "ok"
          /\ get_hotel(hotelFile', last'.args[2]).ret.reserved_rooms
               = get_hotel(hotelFile, last'.args[2]).ret.reserved_rooms + 1
          /\ \A r \in Range(Reservation_load_all(reservationFile')) :
                r.reservation_id # last'.ret.reservation_id]_vars

\* create_reservation has returned a Reservation whose write failed, on a
\* hotel that holds a reserved room
C8_Witness ==
    /\ last.op = "create_reservation"
    /\ last.res = "ok"
    /\ last.io \in {<<"ok", "keep">>, <<"ok", "trunc">>}
    /\ \E h \in Range(Hotels) :
          h.hotel_id = last.args[2] /\ h.reserved_rooms >= 1
    /\ \A r \in Range(Reservations) : r # last.ret

\* C9: reserve_room on a persisted hotel with available_rooms = 0 raises
\* ValidationError, reserve_room on an id that is not persisted raises
\* NotFoundError, and both leave the hotel file as it was.
C9_ReserveRoomRefusals ==
    [][last'.op = "reserve_room"
       => \E before \in {get_hotel(hotelFile, last'.args[1])} :
            /\ before.res # "ok"
                 => last'.res = "NotFound" /\ hotelFile' = hotelFile
            /\ (before.res = "ok" /\ before.ret.reserved_rooms >= before.ret.total_rooms)
                 => last'.res = "Validation" /\ hotelFile' = hotelFile]_vars

\* reserve_room was refused on a persisted full hotel
C9_Witness ==
    /\ last.op = "reserve_room"
    /\ last.res = "Validation"
    /\ \E h \in Range(Hotels) :
          h.hotel_id = last.args[1] /\ h.reserved_rooms = h.total_rooms

\* C10: reserve_room on a persisted hotel with available_rooms >= 1 adds
\* exactly 1 to that hotel's reserved_rooms and leaves its hotel_id, name,
\* city and total_rooms, and every other hotel, as they were.  Writes succeed.
C10_ReserveRoomFrame ==
    [][(/\ last'.op = "reserve_room"
        /\ get_hotel(hotelFile, last'.args[1]).res = "ok"
        /\ available_rooms(get_hotel(hotelFile, last'.args[1]).ret) >= 1)
       => \E before \in {Hotel_load_all(hotelFile)},
             after \in {Hotel_load_all(hotelFile')} :
             /\ last'.res = "ok"
             /\ Len(after) = Len(before)
             /\ \A i \in 1..Len(before) :
                   IF before[i].hotel_id = last'.args[1]
                       THEN after[i] = [before[i] EXCEPT !.reserved_rooms = @ + 1]
                       ELSE after[i] = before[i]]_vars

\* reserve_room has taken a room of one hotel of a file that holds another
C10_Witness ==
    /\ last.op = "reserve_room"
    /\ last.res = "ok"
    /\ Len(Hotels) >= 2
    /\ \E h \in Range(Hotels) :
          h.hotel_id = last.args[1] /\ h.reserved_rooms >= 1
    /\ \E h \in Range(Hotels) : h.hotel_id # last.args[1]

\* C11: cancel_room_reservation raises NotFoundError for an id that is not
\* persisted and ValidationError for a hotel whose reserved_rooms is 0, and
\* both leave the hotel file as it was; otherwise it returns and the hotel's
\* reserved_rooms is exactly 1 lower.  Writes succeed.
C11_CancelRoomReservation ==
    [][last'.op = "cancel_room_reservation"
       => \E before \in {get_hotel(hotelFile, last'.args[1])} :
            IF before.res # "ok"
                THEN last'.res = "NotFound" /\ hotelFile' = hotelFile
            ELSE IF before.ret.reserved_rooms = 0
                THEN last'.res = "Validation" /\ hotelFile' = hotelFile
            ELSE /\ last'.res = "ok"
                 /\ get_hotel(hotelFile', last'.args[1]).res = "ok"
                 /\ get_hotel(hotelFile', last'.args[1]).ret.reserved_rooms
                      = before.ret.reserved_rooms - 1]_vars

\* cancel_room_reservation has released the last reserved room of a hotel
C11_Witness ==
    /\ last.op = "cancel_room_reservation"
    /\ last.res = "ok"
    /\ \E h \in Range(Hotels) :
          h.hotel_id = last.args[1] /\ h.reserved_rooms = 0

\* C12: on a persisted hotel with available_rooms >= 1, reserve_room returns,
\* a cancel_room_reservation that follows it immediately returns too, and the
\* hotel is then equal, field by field, to the hotel before the pair.  Writes
\* succeed.
C12_ReserveThenCancelRestores ==
    [][(/\ last'.op = "reserve_room"
        /\ get_hotel(hotelFile, last'.args[1]).res = "ok"
        /\ available_rooms(get_hotel(hotelFile, last'.args[1]).ret) >= 1)
       => \E cancelled \in {cancel_room_reservation(hotelFile', last'.args[1], "ok")} :
            /\ last'.res = "ok"
            /\ cancelled.res = "ok"
            /\ get_hotel(cancelled.file, last'.args[1])
                 = get_hotel(hotelFile, last'.args[1])]_vars

\* reserve_room has returned on a hotel that had a free room, and a
\* cancel_room_reservation of it is accepted
C12_Witness ==
    /\ last.op = "reserve_room"
    /\ last.res = "ok"
    /\ cancel_room_reservation(hotelFile, last.args[1], "ok").res = "ok"
    /\ \E h \in Range(Hotels) :
          h.hotel_id = last.args[1] /\ h.reserved_rooms >= 1

\* C13: for every Hotel value, available_rooms is total_rooms - reserved_rooms
\* when reserved_rooms <= total_rooms and 0 otherwise, and it is never
\* negative.
C13_AvailableRooms ==
    last.op = "available_rooms" =>
        /\ last.n = (IF last.ret.reserved_rooms <= last.ret.total_rooms
                        THEN last.ret.total_rooms - last.ret.reserved_rooms
                        ELSE 0)
        /\ last.n >= 0

\* available_rooms was read on a Hotel value that holds more reserved rooms
\* than rooms
C13_Witness ==
    /\ last.op = "available_rooms"
    /\ last.ret.reserved_rooms > last.ret.total_rooms
    /\ last.n = 0

\* C14: modify_hotel on a persisted hotel, with a name and a city that are not
\* blank and total_rooms > 0, raises ValidationError exactly when total_rooms
\* is below the hotel's reserved_rooms (an equal total_rooms is accepted) and
\* then leaves the hotel file as it was; otherwise the hotel ends with the
\* (trimmed) name and city and the total_rooms given and the reserved_rooms it
\* had, and that hotel is returned.  Writes succeed.
C14_ModifyHotelBelowReserved ==
    [][(/\ last'.op = "modify_hotel"
        /\ Strip(last'.args[2]) # <<>>
        /\ Strip(last'.args[3]) # <<>>
        /\ last'.n > 0
        /\ get_hotel(hotelFile, last'.args[1]).res = "ok")
       => \E before \in {get_hotel(hotelFile, last'.args[1]).ret} :
            IF last'.n < before.reserved_rooms
                THEN last'.res = "Validation" /\ hotelFile' = hotelFile
                ELSE /\ last'.res = "ok"
                     /\ last'.ret = Hotel(last'.args[1], Strip(last'.args[2]),
                                          Strip(last'.args[3]), last'.n,
                                          before.reserved_rooms)
                     /\ get_hotel(hotelFile', last'.args[1]) = Ok(last'.ret)]_vars

\* modify_hotel has accepted a total_rooms equal to the reserved_rooms of a
\* hotel that holds a reservation
C14_Witness ==
    /\ last.op = "modify_hotel"
    /\ last.res = "ok"
    /\ last.ret.reserved_rooms >= 1
    /\ last.ret.total_rooms = last.ret.reserved_rooms
    /\ last.ret.name = <<"B">>

\* C15 as stated: modify_hotel with total_rooms = 0 on a persisted hotel whose
\* reserved_rooms is 0 does not raise ValidationError.
C15_ZeroRoomsAcceptedWhenUnreserved ==
    [][(/\ last'.op = "modify_hotel"
        /\ last'.n = 0
        /\ Strip(last'.args[2]) # <<>>
        /\ Strip(last'.args[3]) # <<>>
        /\ get_hotel(hotelFile, last'.args[1]).res = "ok"
        /\ get_hotel(hotelFile, last'.args[1]).ret.reserved_rooms = 0)
       => last'.res # "Validation"]_vars

\* C15: modify_hotel with total_rooms = 0 raises ValidationError whatever the
\* reserved_rooms of the hotel (0 included) and whether or not the hotel is
\* persisted, and leaves the hotel file as it was.
C15_ZeroRoomsAlwaysRefused ==
    [][(last'.op = "modify_hotel" /\ last'.n = 0)
       => /\ last'.res = "Validation"
          /\ hotelFile' = hotelFile]_vars

\* modify_hotel with total_rooms = 0 was refused on a persisted hotel without
\* reserved rooms
C15_Witness ==
    /\ last.op = "modify_hotel"
    /\ last.n = 0
    /\ last.res = "Validation"
    /\ Strip(last.args[2]) # <<>>
    /\ Strip(last.args[3]) # <<>>
    /\ \E h \in Range(Hotels) :
          h.hotel_id = last.args[1] /\ h.reserved_rooms = 0

\* C16 as stated: once create_customer(name, email) has returned c (and its
\* write succeeded), get_customer(c.customer_id) returns a record whose name
\* and email are the name and email passed to create_customer.
C16_CreatedCustomerAsPassed ==
    (last.op = "create_customer" /\ last.res = "ok" /\ last.io = <<"ok">>) =>
        \E got \in {get_customer(customerFile, last.ret.customer_id)} :
            /\ got.res = "ok"
            /\ got.ret.name = last.args[1]
            /\ got.ret.email = last.args[2]

\* C16: once create_customer(name, email) has returned c (and its write
\* succeeded), whatever the customer file held before, get_customer of
\* c.customer_id returns a record whose name and email are the name and email
\* passed to create_customer with surrounding whitespace removed.
C16_CreatedCustomerAsTrimmed ==
    (last.op = "create_customer" /\ last.res = "ok" /\ last.io = <<"ok">>) =>
        \E got \in {get_customer(customerFile, last.ret.customer_id)} :
            /\ got.res = "ok"
            /\ got.ret.name = Strip(last.args[1])
            /\ got.ret.email = Strip(last.args[2])

\* create_customer has returned for an email passed with a leading blank, on a
\* file that already held customers
C16_Witness ==
    /\ last.op = "create_customer"
    /\ last.res = "ok"
    /\ last.io = <<"ok">>
    /\ last.args[2] # Strip(last.args[2])
    /\ Len(Customers) >= 3

\* C17: create_customer(name, email) raises ValidationError exactly when the
\* trimmed name is empty or the trimmed email has no "@" or has no ".", and
\* when it raises it writes nothing: the customer file is as it was.
C17_CreateCustomerValidation ==
    [][last'.op = "create_customer"
       => /\ last'.res = "Validation"
               <=> \/ Strip(last'.args[1]) = <<>>
                   \/ ~Contains(Strip(last'.args[2]), "@")
                   \/ ~Contains(Strip(last'.args[2]), ".")
          /\ last'.res = "Validation"
               => /\ last'.io = <<>>
                  /\ customerFile' = customerFile]_vars

\* create_customer has refused an email that holds "@" and no "."
C17_Witness ==
    /\ last.op = "create_customer"
    /\ last.res = "Validation"
    /\ Strip(last.args[1]) # <<>>
    /\ Contains(last.args[2], "@")
    /\ ~Contains(last.args[2], ".")

\* C18: modify_customer(id, name, email) with a name and an email it accepts
\* raises NotFoundError and leaves the customer file as it was when no
\* persisted customer has that id; otherwise, its write succeeding, every
\* record of that id is replaced where it stands by (id, trimmed name, trimmed
\* email), every other record keeps its value and its position, and the
\* Customer returned is the one get_customer(id) returns right afterwards.
C18_ModifyCustomerInPlace ==
    [][(/\ last'.op = "modify_customer"
        /\ Strip(last'.args[2]) # <<>>
        /\ Contains(Strip(last'.args[3]), "@")
        /\ Contains(Strip(last'.args[3]), "."))
       => \E before \in {Customer_load_all(customerFile)},
             after \in {Customer_load_all(customerFile')} :
            IF \A i \in 1..Len(before) : before[i].customer_id # last'.args[1]
                THEN last'.res = "NotFound" /\ customerFile' = customerFile
                ELSE last'.io = <<"ok">>
                       => /\ last'.res = "ok"
                          /\ Len(after) = Len(before)
                          /\ \A i \in 1..Len(before) :
                                after[i] = IF before[i].customer_id = last'.args[1]
                                             THEN Customer(last'.args[1],
                                                           Strip(last'.args[2]),
                                                           Strip(last'.args[3]))
                                             ELSE before[i]
                          /\ Ok(last'.ret) = get_customer(customerFile',
                                                          last'.args[1])]_vars

\* modify_customer has replaced the second of three customers
C18_Witness ==
    /\ last.op = "modify_customer"
    /\ last.res = "ok"
    /\ last.io = <<"ok">>
    /\ Len(Customers) >= 3
    /\ Customers[2] = last.ret
    /\ Customers[1].customer_id # last.args[1]
    /\ Customers[3].customer_id # last.args[1]

\* C19: delete_customer(id) raises NotFoundError and leaves the customer file
\* as it was when no persisted customer has that id; otherwise, its write
\* succeeding, the other customers stay persisted in their order, and
\* get_customer(id) raises NotFoundError in every later state (no operation
\* writes a record of a deleted id again: create_customer draws a new id and
\* modify_customer refuses an absent one).
C19_DeleteCustomerForGood ==
    /\ [][last'.op = "delete_customer"
          => \E before \in {Customer_load_all(customerFile)} :
               IF \A i \in 1..Len(before) : before[i].customer_id # last'.args[1]
                   THEN last'.res = "NotFound" /\ customerFile' = customerFile
                   ELSE /\ last'.res = "ok"
                        /\ last'.io = <<"ok">>
                             => Customer_load_all(customerFile')
                                  = SelectSeq(before,
                                              LAMBDA c : c.customer_id
                                                           # last'.args[1])]_vars
    /\ \A id \in CustomerIds(MaxCustomerUuid) :
          []((/\ last.op = "delete_customer"
              /\ last.args = <<id>>
              /\ last.res = "ok"
              /\ last.io = <<"ok">>)
             => [](get_customer(customerFile, id).res = "NotFound"))

\* delete_customer has removed a customer from between two others, which
\* are still persisted
C19_Witness ==
    /\ last.op = "delete_customer"
    /\ last.res = "ok"
    /\ last.io = <<"ok">>
    /\ Len(Customers) >= 2
    /\ get_customer(customerFile, last.args[1]).res = "NotFound"

\* C20: create_hotel(name, city, total_rooms) raises ValidationError and
\* leaves the hotel file as it was when the trimmed name is empty, the trimmed
\* city is empty or total_rooms <= 0; otherwise it returns a hotel with the
\* trimmed name and city, the total_rooms given and reserved_rooms = 0, that
\* hotel is appended to the persisted hotels, and get_hotel of the returned
\* id returns it.  Writes succeed.
C20_CreateHotel ==
    [][last'.op = "create_hotel"
       => IF \/ Strip(last'.args[1]) = <<>>
             \/ Strip(last'.args[2]) = <<>>
             \/ last'.n <= 0
              THEN /\ last'.res = "Validation"
                   /\ hotelFile' = hotelFile
              ELSE /\ last'.res = "ok"
                   /\ last'.ret = Hotel(last'.ret.hotel_id, Strip(last'.args[1]),
                                        Strip(last'.args[2]), last'.n, 0)
                   /\ Hotel_load_all(hotelFile')
                        = Append(Hotel_load_all(hotelFile), last'.ret)
                   /\ get_hotel(hotelFile', last'.ret.hotel_id) = Ok(last'.ret)]_vars

\* create_hotel has appended a hotel, passed with a padded name, to a file
\* that held another
C20_Witness ==
    /\ last.op = "create_hotel"
    /\ last.res = "ok"
    /\ last.args[1] # last.ret.name
    /\ Len(Hotels) >= 2
    /\ Hotels[Len(Hotels)] = last.ret


(***************************************************************************)
(* Records of a file, as the properties about loading speak of them        *)
(***************************************************************************)
Blank(s) == \A i \in 1..Len(s) : s[i] = " "

\* an object that lacks one of the fields or holds a blank string in one
StructurallyInvalid(record, fields) ==
    /\ IsDict(record)
    /\ \E f \in fields : f \notin DOMAIN record \/ Blank(record[f])

HotelStrings == {"hotel_id", "name", "city"}

\* int() accepts both room counts and they are a hotel's: 0 <= reserved <= total, total > 0
RoomsValid(record) ==
    /\ {"total_rooms", "reserved_rooms"} \subseteq DOMAIN record
    /\ PyInt(record.total_rooms).ok /\ PyInt(record.reserved_rooms).ok
    /\ PyInt(record.total_rooms).n > 0
    /\ PyInt(record.reserved_rooms).n >= 0
    /\ PyInt(record.reserved_rooms).n <= PyInt(record.total_rooms).n

ValidHotelRecord(record) ==
    IsDict(record) /\ ~StructurallyInvalid(record, HotelStrings) /\ RoomsValid(record)

ValidCustomerRecord(record) ==
    IsDict(record) /\ ~StructurallyInvalid(record, CUSTOMER_REQUIRED_FIELDS)

ValidReservationRecord(record) ==
    IsDict(record) /\ ~StructurallyInvalid(record, RESERVATION_REQUIRED_FIELDS)

\* the elements of a file that carry an id
RecordsWith(file, key) ==
    {r \in Range(file.items) : IsDict(r) /\ key \in DOMAIN r}

\* the ids to look up in a file: those written in it, as written and trimmed,
\* and one that is in no file
LookupIds(file, key) ==
    {<<"z">>} \cup {r[key] : r \in RecordsWith(file, key)}
              \cup {Strip(r[key]) : r \in RecordsWith(file, key)}

\* C21 as stated: a lookup succeeds for the id of each valid record and raises
\* NotFoundError for the id of each structurally invalid record of the file
C21_InvalidRecordIdsNotFound ==
    /\ \A r \in RecordsWith(customerFile, "customer_id") :
         /\ ValidCustomerRecord(r) =>
              get_customer(customerFile, Strip(r.customer_id)).res = "ok"
         /\ StructurallyInvalid(r, CUSTOMER_REQUIRED_FIELDS) =>
              get_customer(customerFile, r.customer_id) = NotFoundError
    /\ \A r \in RecordsWith(hotelFile, "hotel_id") :
         /\ ValidHotelRecord(r) => get_hotel(hotelFile, Strip(r.hotel_id)).res = "ok"
         /\ StructurallyInvalid(r, HotelStrings) =>
              get_hotel(hotelFile, r.hotel_id) = NotFoundError
    /\ \A r \in RecordsWith(reservationFile, "reservation_id") :
         /\ ValidReservationRecord(r) =>
              display_reservation(reservationFile, Strip(r.reservation_id)).res = "ok"
         /\ StructurallyInvalid(r, RESERVATION_REQUIRED_FIELDS) =>
              display_reservation(reservationFile, r.reservation_id) = NotFoundError

\* C21, amended: whatever the file holds, get_customer, get_hotel and
\* display_reservation succeed exactly for the trimmed ids of its valid records
\* and raise NotFoundError for every other id, so the id of an invalid record is
\* not found unless a valid record of the file carries it; a lookup never
\* raises anything else, and the lookup the caller made obeys the same rule
C21_LookupsFindValidRecords ==
    /\ \A id \in LookupIds(customerFile, "customer_id") :
         IF \E r \in RecordsWith(customerFile, "customer_id") :
                ValidCustomerRecord(r) /\ Strip(r.customer_id) = id
         THEN get_customer(customerFile, id).res = "ok"
         ELSE get_customer(customerFile, id) = NotFoundError
    /\ \A id \in LookupIds(hotelFile, "hotel_id") :
         IF \E r \in RecordsWith(hotelFile, "hotel_id") :
                ValidHotelRecord(r) /\ Strip(r.hotel_id) = id
         THEN get_hotel(hotelFile, id).res = "ok"
         ELSE get_hotel(hotelFile, id) = NotFoundError
    /\ \A id \in LookupIds(reservationFile, "reservation_id") :
         IF \E r \in RecordsWith(reservationFile, "reservation_id") :
                ValidReservationRecord(r) /\ Strip(r.reservation_id) = id
         THEN display_reservation(reservationFile, id).res = "ok"
         ELSE display_reservation(reservationFile, id) = NotFoundError
    /\ last.op = "get_customer" =>
         last.res = (IF \E r \in RecordsWith(customerFile, "customer_id") :
                         ValidCustomerRecord(r) /\ Strip(r.customer_id) = last.args[1]
                     THEN "ok" ELSE "NotFound")

\* a customer file mixing a valid record and a structurally invalid one whose
\* id no valid record carries: the lookup of that id was refused
C21_Witness ==
    /\ last.op = "get_customer" /\ last.res = "NotFound"
    /\ \E r \in RecordsWith(customerFile, "customer_id") :
         /\ StructurallyInvalid(r, CUSTOMER_REQUIRED_FIELDS)
         /\ r.customer_id = last.args[1]
    /\ \E r \in RecordsWith(customerFile, "customer_id") : ValidCustomerRecord(r)

\* arguments create_hotel / modify_hotel and create_customer / modify_customer accept
ValidHotelArgs(name, city, total_rooms) ==
    ~Blank(name) /\ ~Blank(city) /\ total_rooms > 0

ValidCustomerArgs(name, email) ==
    ~Blank(name) /\ Contains(email, "@") /\ Contains(email, ".")

\* the file is missing, blank, unparseable or a document that is no array
NoArray(file) == file.kind # "array"

\* C22: on a file that is missing, empty, whitespace-only, unparseable or no
\* JSON array every get, display, modify (with acceptable values), delete and
\* cancel by id raises NotFoundError and leaves the file as it is, and a create
\* with valid input whose writes succeed returns the new record and leaves an
\* array file holding exactly that record
C22_NoFileIsEmptyStore ==
    [][/\ (NoArray(hotelFile) /\ last'.op \in {"get_hotel", "display_hotel",
                                   "delete_hotel", "cancel_room_reservation"})
            => last'.res = "NotFound" /\ hotelFile' = hotelFile
       /\ (NoArray(hotelFile) /\ last'.op = "modify_hotel"
              /\ ValidHotelArgs(last'.args[2], last'.args[3], last'.n))
            => last'.res = "NotFound" /\ hotelFile' = hotelFile
       /\ (NoArray(hotelFile) /\ last'.op = "create_hotel"
              /\ ValidHotelArgs(last'.args[1], last'.args[2], last'.n)
              /\ "keep" \notin Range(last'.io) /\ "trunc" \notin Range(last'.io))
            => /\ last'.res = "ok"
               /\ hotelFile'.kind = "array" /\ Len(hotelFile'.items) = 1
               /\ Hotel_load_all(hotelFile') = <<last'.ret>>
       /\ (NoArray(customerFile) /\ last'.op \in {"get_customer", "display_customer",
                                                  "delete_customer"})
            => last'.res = "NotFound" /\ customerFile' = customerFile
       /\ (NoArray(customerFile) /\ last'.op = "modify_customer"
              /\ ValidCustomerArgs(last'.args[2], last'.args[3]))
            => last'.res = "NotFound" /\ customerFile' = customerFile
       /\ (NoArray(customerFile) /\ last'.op = "create_customer"
              /\ ValidCustomerArgs(last'.args[1], last'.args[2])
              /\ "keep" \notin Range(last'.io) /\ "trunc" \notin Range(last'.io))
            => /\ last'.res = "ok"
               /\ customerFile'.kind = "array" /\ Len(customerFile'.items) = 1
               /\ Customer_load_all(customerFile') = <<last'.ret>>
       /\ (NoArray(reservationFile)
              /\ last'.op \in {"cancel_reservation", "display_reservation"})
            => /\ last'.res = "NotFound"
               /\ reservationFile' = reservationFile /\ hotelFile' = hotelFile
       /\ (NoArray(reservationFile) /\ last'.op = "create_reservation"
              /\ \E c \in Range(Customers) : c.customer_id = last'.args[1]
              /\ \E h \in Range(Hotels) :
                    h.hotel_id = last'.args[2] /\ h.reserved_rooms < h.total_rooms
              /\ "keep" \notin Range(last'.io) /\ "trunc" \notin Range(last'.io))
            => /\ last'.res = "ok"
               /\ reservationFile'.kind = "array" /\ Len(reservationFile'.items) = 1
               /\ Reservation_load_all(reservationFile') = <<last'.ret>>
      ]_vars

\* a reservation was created on a reservation file that was no array, and is
\* the one record of the file now
C22_Witness ==
    /\ last.op = "create_reservation" /\ last.res = "ok"
    /\ reservationFile.kind = "array" /\ Reservations = <<last.ret>>
    /\ uuid = 1

HotelOps ==
    {"create_hotel", "modify_hotel", "delete_hotel", "reserve_room",
     "cancel_room_reservation"}

CustomerOps == {"create_customer", "modify_customer", "delete_customer"}

ReservationOps == {"create_reservation", "cancel_reservation"}

\* C24: an operation raises nothing but NotFound and Validation, and when a
\* write of a file fails the operation returns as if it had succeeded and the
\* file keeps the contents it had
C24_StorageFailuresStayHidden ==
    [][last'.op # "none" =>
         /\ last'.res \in {"ok", "NotFound", "Validation"}
         /\ (last'.op \in HotelOps /\ last'.io # <<>> /\ last'.io[1] # "ok")
              => last'.res = "ok" /\ hotelFile' = hotelFile
         /\ (last'.op \in CustomerOps /\ last'.io # <<>> /\ last'.io[1] # "ok")
              => last'.res = "ok" /\ customerFile' = customerFile
         /\ (last'.op \in ReservationOps /\ last'.io # <<>> /\ last'.io[1] # "ok")
              => last'.res = "ok" /\ hotelFile' = hotelFile
         /\ (last'.op \in ReservationOps /\ Len(last'.io) = 2 /\ last'.io[2] # "ok")
              => last'.res = "ok" /\ reservationFile' = reservationFile
      ]_vars

\* a write of the customer file failed after path.write_text had opened it:
\* the file is empty and modify_customer raised NotFoundError from its reload
C24_Witness ==
    /\ last.op = "modify_customer" /\ last.io = <<"trunc">>
    /\ last.res = "NotFound"
    /\ customerFile.kind = "blank"

\* what a lookup by id must answer from the records persisted now
Persisted(records, key, id) ==
    IF \A i \in 1..Len(records) : records[i][key] # id THEN NotFoundError
    ELSE Ok(records[CHOOSE i \in 1..Len(records) :
                      /\ records[i][key] = id
                      /\ \A j \in 1..(i - 1) : records[j][key] # id])

Returned == {p \in 1..MaxCallers : calls[p].pc = "done" /\ calls[p].res = "ok"}

\* p read the customer file before q wrote it: q's Customer is not in the list
\* p read (identifiers are fresh, so nothing else can have put it there)
ReadBeforeWrite(p, q) ==
    \A i \in 1..Len(calls[p].customers) : calls[p].customers[i] # calls[q].ret

\* C26: when the steps of create_customer calls interleave at the file read
\* and the file write, two calls that both read the file before either wrote
\* it both return a Customer, and the file never holds both new customers;
\* with nobody else writing, it ends holding the one written last
C26_LostUpdate ==
    /\ \A p, q \in Returned :
         (p # q /\ ReadBeforeWrite(p, q) /\ ReadBeforeWrite(q, p))
            => ~(calls[p].ret \in Range(Customers) /\ calls[q].ret \in Range(Customers))
    /\ (Returned # {} /\ \A p \in 1..MaxCallers : calls[p].pc = "done")
            => \E p \in Returned : calls[p].ret \in Range(Customers)

\* two calls read the file before either wrote it, both returned a Customer,
\* and the file holds the second caller's customer only
C26_Witness ==
    /\ Returned = 1..MaxCallers
    /\ ReadBeforeWrite(1, 2) /\ ReadBeforeWrite(2, 1)
    /\ calls[1].ret \notin Range(Customers)
    /\ calls[2].ret \in Range(Customers)

Booked(hotels, reservations) ==
    \A h \in Range(hotels) :
        /\ ReservationsOf(reservations, h.hotel_id) <= h.reserved_rooms
        /\ h.reserved_rooms <= h.total_rooms

C28_CancelReleasesBeforeRewrite ==
    [][\A r \in Range(Reservations) :
         (last'.op = "cancel_reservation" /\ r.reservation_id = last'.args[1])
           => /\ (\A h \in Range(Hotels) : h.hotel_id # r.hotel_id)
                   => /\ last'.res = "NotFound"
                      /\ reservationFile' = reservationFile /\ hotelFile' = hotelFile
                      /\ display_reservation(reservationFile', r.reservation_id)
                           = reservation_text(Ok(r))
              /\ (\E h \in Range(Hotels) :
                       h.hotel_id = r.hotel_id /\ h.reserved_rooms = 0)
                   => /\ last'.res = "Validation"
                      /\ reservationFile' = reservationFile /\ hotelFile' = hotelFile
                      /\ display_reservation(reservationFile', r.reservation_id)
                           = reservation_text(Ok(r))
      ]_vars

\* cancel_reservation of a persisted reservation raised NotFoundError because
\* the hotel had been deleted, and the reservation is still persisted
C28_Witness ==
    /\ last.op = "cancel_reservation" /\ last.res = "NotFound"
    /\ \E r \in Range(Reservations) :
         /\ r.reservation_id = last.args[1]
         /\ \A h \in Range(Hotels) : h.hotel_id # r.hotel_id

\* the reserved_rooms of the hotels of this id in a hotel file
ReservedRooms(file, hotel_id) ==
    {h.reserved_rooms : h \in {g \in Range(Hotel_load_all(file)) : g.hotel_id = hotel_id}}

\* C29: when cancel_reservation released the room and its write of the
\* reservation file failed, it returns without raising, the hotel's
\* reserved_rooms is one less while the reservation is still persisted, and a
\* repeated cancel_reservation of the id is accepted and releases a second
\* room when reserved_rooms is still positive
C29_FailedCancelWriteKeepsRecord ==
    [][\A r \in Range(Reservations) :
         (/\ last'.op = "cancel_reservation" /\ r.reservation_id = last'.args[1]
          /\ Len(last'.io) = 2 /\ last'.io[1] = "ok" /\ last'.io[2] # "ok")
           => /\ last'.res = "ok"
              /\ ReservedRooms(hotelFile', r.hotel_id)
                   = {n - 1 : n \in ReservedRooms(hotelFile, r.hotel_id)}
              /\ r \in Range(Reservation_load_all(reservationFile'))
              /\ \A n \in ReservedRooms(hotelFile', r.hotel_id) :
                   n > 0 =>
                     \E o \in {cancel_reservation(hotelFile', reservationFile',
                                                  r.reservation_id, "ok", "ok")} :
                        /\ o.res = "ok"
                        /\ ReservedRooms(o.hfile, r.hotel_id) = {n - 1}
      ]_vars

\* the write of the reservation file failed before the file was opened: the
\* room is released and the reservation is still persisted
C29_Witness ==
    /\ last.op = "cancel_reservation" /\ last.io = <<"ok", "keep">>
    /\ last.res = "ok"
    /\ \E r \in Range(Reservations) :
         /\ r.reservation_id = last.args[1]
         /\ ReservedRooms(hotelFile, r.hotel_id) = {1}

\* exactly one hotel of the file lost exactly one reserved room, and nothing
\* else of the hotels changed
OneRoomReleased(before, after) ==
    /\ Len(after) = Len(before)
    /\ \E i \in 1..Len(before) :
         /\ after[i] = [before[i] EXCEPT !.reserved_rooms = @ - 1]
         /\ \A j \in 1..Len(before) : j # i => after[j] = before[j]

\* C30 as stated: whatever the reservation file holds, a cancel_reservation
\* that succeeds leaves one valid reservation less and exactly one hotel with
\* one reserved room less
C30_CancelRemovesExactlyOne ==
    [][(last'.op = "cancel_reservation" /\ last'.res = "ok")
         => /\ Len(Reservation_load_all(reservationFile')) = Len(Reservations) - 1
            /\ OneRoomReleased(Hotels, Hotel_load_all(hotelFile'))
      ]_vars

\* C30, amended: a cancel_reservation that succeeds removes every valid
\* record that carries the id (one when the ids of the file are unique, as in
\* every file the program writes) and no other, and releases exactly one room
\* of exactly one hotel
C30_CancelRemovesEveryRecordOfId ==
    [][(last'.op = "cancel_reservation" /\ last'.res = "ok")
         => /\ Reservation_load_all(reservationFile')
                 = SelectSeq(Reservations,
                             LAMBDA r : r.reservation_id # last'.args[1])
            /\ Len(Reservation_load_all(reservationFile')) < Len(Reservations)
            /\ (UniqueIds(MapSeq(Reservations, LAMBDA r : r.reservation_id))
                  => Len(Reservation_load_all(reservationFile')) = Len(Reservations) - 1)
            /\ OneRoomReleased(Hotels, Hotel_load_all(hotelFile'))
      ]_vars

\* the reservation file held two records of the cancelled id: both are gone,
\* the third record is left, and one room of hotel y was released
C30_Witness ==
    /\ last.op = "cancel_reservation" /\ last.res = "ok"
    /\ Reservations = <<Reservation(<<"s">>, <<"c">>, <<"x">>)>>
    /\ \E h \in Range(Hotels) : h.hotel_id = <<"y">> /\ h.reserved_rooms = 0

\* what create_customer and modify_customer require of the values they store:
\* trimmed, not empty, an email with "@" and "."
WellFormedCustomer(c) ==
    /\ c.customer_id # <<>> /\ Strip(c.customer_id) = c.customer_id
    /\ c.name # <<>> /\ Strip(c.name) = c.name
    /\ c.email # <<>> /\ Strip(c.email) = c.email
    /\ Contains(c.email, "@") /\ Contains(c.email, ".")

\* C31 as stated: whatever customer file the repository is started on, every
\* Customer get_customer returns has a trimmed non-empty customer_id, a
\* trimmed non-empty name and a trimmed non-empty email with "@" and "."
C31_ReturnedCustomersWellFormed ==
    (last.op = "get_customer" /\ last.res = "ok") => WellFormedCustomer(last.ret)

\* get_customer has returned a Customer whose email has neither "@" nor ".":
\* the record of a file written outside the repository, which the load keeps
\* because its email is not blank
C31_Witness ==
    /\ last.op = "get_customer" /\ last.res = "ok"
    /\ last.ret = Customer(<<"c">>, <<"A">>, <<"e">>)
    /\ ~Contains(last.ret.email, "@") /\ ~Contains(last.ret.email, ".")

\* C32: modify_customer and modify_hotel check their arguments before they
\* look the id up.  A call with a blank name, an email without "@" or ".", a
\* blank city or total_rooms <= 0 raises ValidationError whether or not the id
\* is among the loaded records; NotFoundError is raised exactly for acceptable
\* arguments with an id that is not among them; and a call that raises has
\* performed no write and leaves its file as it was.  Writes succeed.
C32_ValidationPrecedesLookup ==
    [][/\ (last'.op = "modify_customer")
            => /\ ~ValidCustomerArgs(last'.args[2], last'.args[3])
                    => last'.res = "Validation"
               /\ last'.res = "NotFound"
                    <=> /\ ValidCustomerArgs(last'.args[2], last'.args[3])
                        /\ \A c \in Range(Customers) : c.customer_id # last'.args[1]
               /\ last'.res # "ok"
                    => last'.io = <<>> /\ customerFile' = customerFile
       /\ (last'.op = "modify_hotel")
            => /\ ~ValidHotelArgs(last'.args[2], last'.args[3], last'.n)
                    => last'.res = "Validation"
               /\ last'.res = "NotFound"
                    <=> /\ ValidHotelArgs(last'.args[2], last'.args[3], last'.n)
                        /\ \A h \in Range(Hotels) : h.hotel_id # last'.args[1]
               /\ last'.res # "ok"
                    => last'.io = <<>> /\ hotelFile' = hotelFile
      ]_vars

\* modify_hotel has raised ValidationError for total_rooms 0 and an id that
\* no hotel of the file carries, on a file that holds a hotel
C32_Witness ==
    /\ last.op = "modify_hotel" /\ last.res = "Validation" /\ last.n = 0
    /\ Hotels # <<>>
    /\ \A h \in Range(Hotels) : h.hotel_id # last.args[1]

\* C33: a create_hotel, create_customer or create_reservation that succeeds
\* rewrites its file as the records that were valid on load, in their order,
\* followed by the new record as the last element: the valid records of the
\* new file are the old ones with the returned record appended, and every
\* element of the new file is one of them, so the elements the load had
\* dropped are gone.  Writes succeed.
C33_CreateAppendsToValidRecords ==
    [][/\ (last'.op = "create_hotel" /\ last'.res = "ok")
            => /\ hotelFile'.kind = "array"
               /\ hotelFile'.items = MapSeq(Append(Hotels, last'.ret), Hotel_asdict)
               /\ Hotel_load_all(hotelFile') = Append(Hotels, last'.ret)
       /\ (last'.op = "create_customer" /\ last'.res = "ok")
            => /\ customerFile'.kind = "array"
               /\ customerFile'.items = Append(Customers, last'.ret)
               /\ Customer_load_all(customerFile') = Append(Customers, last'.ret)
       /\ (last'.op = "create_reservation" /\ last'.res = "ok")
            => /\ reservationFile'.kind = "array"
               /\ reservationFile'.items = Append(Reservations, last'.ret)
               /\ Reservation_load_all(reservationFile')
                    = Append(Reservations, last'.ret)
      ]_vars

\* create_reservation has succeeded on a reservation file that held a valid
\* reservation s after an element the load drops: the file is now that
\* reservation followed by the new one, and nothing else
C33_Witness ==
    /\ last.op = "create_reservation" /\ last.res = "ok"
    /\ reservationFile.items = <<Reservation(<<"s">>, <<"c">>, <<"x">>), last.ret>>
    /\ last.ret.reservation_id = Uuid4(1)

\* the operations that only read
ReadOnlyOps ==
    {"get_customer", "display_customer", "get_hotel", "display_hotel",
     "display_reservation"}

\* C34: get_customer, display_customer, get_hotel, display_hotel and
\* display_reservation, and every call of any operation that ends in
\* NotFoundError or ValidationError, leave the hotel, customer and
\* reservation files exactly as they were, elements the load drops included.
\* Writes succeed.
C34_ReadsAndRefusalsKeepFiles ==
    [][(last'.op \in ReadOnlyOps \/ last'.res \in {"NotFound", "Validation"})
         => /\ hotelFile' = hotelFile
            /\ customerFile' = customerFile
            /\ reservationFile' = reservationFile
      ]_vars

\* delete_customer has raised NotFoundError for the id of a record the load
\* drops (blank name): the record is still in the file, before a valid one
C34_Witness ==
    /\ last.op = "delete_customer" /\ last.res = "NotFound"
    /\ last.args[1] = <<"c">>
    /\ customerFile.items = <<Customer(<<"c">>, <<" ">>, <<"@", ".">>),
                              Customer(<<"d">>, <<"D">>, <<"@", ".">>)>>

\* result is the objects among the elements of items, in the order of items
ObjectsInOrder(result, items) ==
    \E objects \in {{i \in 1..Len(items) : "nondict" \notin DOMAIN items[i]}} :
       /\ Len(result) = Cardinality(objects)
       /\ \A i \in objects :
            result[Cardinality({j \in objects : j <= i})] = items[i]

\* C35: load_json_list on a file that holds a JSON array returns, without
\* raising and without touching the file, exactly the elements that are
\* objects, in their order; and after a save_json_list(path, L) whose write
\* succeeded the file holds the array L and load_json_list returns L.
C35_LoadFiltersAndSaveRoundTrips ==
    [][/\ (last'.op = "load_json_list" /\ hotelFile.kind = "array")
            => /\ last'.res = "ok"
               /\ ObjectsInOrder(last'.ret.cleaned, hotelFile.items)
               /\ hotelFile' = hotelFile
       /\ (last'.op = "save_json_list" /\ last'.io = <<"ok">>)
            => /\ hotelFile' = save_json_list(hotelFile, last'.args, "ok")
               /\ ~read_text_raises(hotelFile')
               /\ load_json_list(hotelFile') = last'.args
      ]_vars

\* load_json_list has returned the two objects of an array of four elements
\* whose second and third element are a number and a string
C35_Witness ==
    /\ last.op = "load_json_list" /\ last.res = "ok"
    /\ Len(hotelFile.items) = 4
    /\ last.ret.cleaned = <<[a |-> JNum(1)], [b |-> JNum(2)]>>

====
